---- MODULE Spec2Model ----
(***************************************************************************)
(* goodiesdb: the typed value store (internal/core/store), its command     *)
(* log (AOF), the snapshot (RDB) and the replay of the log.                *)
(*                                                                         *)
(* Time is counted in ticks of half a second, so that the truncation of    *)
(* int(ttl.Seconds()) is visible.  A keyspace map[string]Value is a        *)
(* function over the key universe; a missing key maps to the Go zero Value *)
(* with ok = FALSE, which is what `value, ok := s.data[db][key]` yields.   *)
(* The payload interface{} is its dynamic kind plus the string or the list *)
(* it holds.                                                               *)
(***************************************************************************)
EXTENDS Integers, Sequences, FiniteSets, TLC

\* ---- bounds of the model ----
MaxOps == 3          \* store commands issued in one run
MaxNow == 2          \* last clock tick
MaxPending == 1      \* log lines the channel holds before a sender waits
MaxLog == 3          \* store commands issued before a snapshot or a replay
MaxReq == 3          \* requests the server executes in one run
MaxLen == 3          \* elements of a list stored before LRANGE reads it
IntBits == 6         \* width of the model's int (Go's int has 64 bits)
MaxCmds == 2         \* store commands issued on the selected databases in one run

\* ---- program constants ----
NumDbs == 16
TicksPerSec == 2
TypeString == 0
TypeList == 1
NoExp == -1          \* ExpiresAt == nil

\* ---- input universes ----
DBs == {0, 1}
Keys == {"k1", "k2"}
StrVals == {"a", "1"}
TTLSecs == {0, 1}
Counts == {-1, 0, 2}
Indexes == {-5, -1, 0, 1, 5}
TrimArgs == {<<0, 0>>, <<1, 2>>, <<-1, -1>>, <<1, 0>>}
Slots == {<<0, "k1">>, <<0, "k2">>}
AllDbs == 0 .. (NumDbs - 1)

\* ---- strconv ----
Digit(n) ==
  CASE n = 0 -> "0" [] n = 1 -> "1" [] n = 2 -> "2" [] n = 3 -> "3" [] n = 4 -> "4"
    [] n = 5 -> "5" [] n = 6 -> "6" [] n = 7 -> "7" [] n = 8 -> "8" [] n = 9 -> "9"

RECURSIVE ItoaNat(_)
ItoaNat(n) == IF n < 10 THEN Digit(n) ELSE ItoaNat(n \div 10) \o Digit(n % 10)

Itoa(n) == IF n < 0 THEN "-" \o ItoaNat(0 - n) ELSE ItoaNat(n)

\* int: two's complement of IntBits bits
MinInt == 0 - 2^(IntBits - 1)

MaxInt == 2^(IntBits - 1) - 1

\* the int that arithmetic on ints leaves: Go wraps around on overflow
WrapInt(n) == ((n - MinInt) % 2^IntBits) + MinInt

\* Atoi fails with ErrRange on a number that no int holds
AtoiRange == MinInt .. MaxInt

\* the decimal form of every int
Decimals == [n \in AtoiRange |-> Itoa(n)]

AtoiOk(s) == \E n \in AtoiRange : Decimals[n] = s

Atoi(s) == CHOOSE n \in AtoiRange : Decimals[n] = s

\* int(d.Seconds()): a duration in ticks to whole seconds, truncated toward 0
Seconds(ticks) ==
  IF ticks >= 0 THEN ticks \div TicksPerSec ELSE 0 - ((0 - ticks) \div TicksPerSec)

\* ---- slices ----
RECURSIVE Reverse(_)
Reverse(s) == IF s = <<>> THEN <<>> ELSE Append(Reverse(Tail(s)), Head(s))

\* s[lo:hi] of Go, 0-based, hi exclusive
Slice(s, lo, hi) == SubSeq(s, lo + 1, hi)

\* s[lo:hi] does not panic with "slice bounds out of range"
SliceInRange(s, lo, hi) == 0 <= lo /\ lo <= hi /\ hi <= Len(s)

\* ---- Value ----
NoKey == [ok |-> FALSE, type |-> TypeString, kind |-> "nil", str |-> "", list |-> <<>>, exp |-> NoExp]

NewStringValue(v) ==
  [ok |-> TRUE, type |-> TypeString, kind |-> "string", str |-> v, list |-> <<>>, exp |-> NoExp]

NewListValue(l) ==
  [ok |-> TRUE, type |-> TypeList, kind |-> "list", str |-> "", list |-> l, exp |-> NoExp]

IsExpired(v, t) == v.exp # NoExp /\ t > v.exp

\* AsList: the list, or nil (the empty slice) with an error
AsListOk(v) == v.type = TypeList /\ v.kind = "list"

AsList(v) == IF AsListOk(v) THEN v.list ELSE <<>>

WithList(v, l) == [v EXCEPT !.kind = "list", !.str = "", !.list = l]

WithString(v, s) == [v EXCEPT !.kind = "string", !.str = s, !.list = <<>>]

EmptyDb == [k \in Keys |-> NoKey]

EmptyData == [d \in AllDbs |-> EmptyDb]

\* ---- results of a store call ----
RvNil == [i |-> 0, err |-> "", isNil |-> TRUE, s |-> "", vals |-> <<>>, kind |-> "nil"]

RvInt(n) == [RvNil EXCEPT !.i = n, !.isNil = FALSE, !.kind = "int"]

RvErr(e) == [RvNil EXCEPT !.err = e, !.isNil = FALSE, !.kind = "err"]

RvStr(x) == [RvNil EXCEPT !.s = x, !.isNil = FALSE, !.kind = "str"]

RvVals(l) == [RvNil EXCEPT !.vals = l, !.isNil = FALSE, !.kind = "vals"]

RvOK == [RvNil EXCEPT !.s = "OK", !.isNil = FALSE, !.kind = "ok"]

\* the call did not return: a run-time panic
RvPanic == [RvNil EXCEPT !.isNil = FALSE, !.kind = "panic"]

ErrNoSuchKey == "no such key"
ErrWrongType == "WRONGTYPE Operation against a key holding the wrong kind of value"
ErrNotInteger == "ERR value is not an integer or out of range"
ErrRange == "value is out of range, must be positive"

\* a call that returned: the new keyspaces, the lines sent to the channel, the result
Ret(D, lines, rv) == [data |-> D, log |-> lines, rv |-> rv, status |-> "returned"]

\* a call that never returns and never unlocks s.mu
Blocked(D, lines) == [data |-> D, log |-> lines, rv |-> RvNil, status |-> "blocked"]

\* a call that panics (no recover anywhere: the process dies)
Panicked(D, lines) == [data |-> D, log |-> lines, rv |-> RvNil, status |-> "panic"]

\* ---- store primitives: keyspaces D, clock t ----
delKey(D, d, k) == [D EXCEPT ![d][k] = NoKey]

flushDb(D, d) == [D EXCEPT ![d] = EmptyDb]

\* Set that keeps the expiration of the value it replaces
SetKeepsExpiration(D, d, k, v) ==
  Ret([D EXCEPT ![d][k] = [NewStringValue(v) EXCEPT !.exp = D[d][k].exp]],
      << <<"SET", Itoa(d), k, v>> >>, RvInt(1))

Set(D, d, k, v) ==
  Ret([D EXCEPT ![d][k] = NewStringValue(v)], << <<"SET", Itoa(d), k, v>> >>, RvInt(1))

\* (value, ok) of Store.Get
Get(D, t, d, k) ==
  LET value == D[d][k] IN
  IF IsExpired(value, t) THEN NoKey
  ELSE IF ~value.ok THEN NoKey
  ELSE value

Del(D, d, k) == Ret(delKey(D, d, k), << <<"DEL", Itoa(d), k>> >>, RvNil)

ExistsOne(D, t, d, k) ==
  LET value == D[d][k] IN
  IF value.ok /\ ~IsExpired(value, t) /\ value.kind # "nil" THEN 1 ELSE 0

RECURSIVE Exists(_, _, _, _)
Exists(D, t, d, ks) ==
  IF ks = <<>> THEN 0 ELSE ExistsOne(D, t, d, Head(ks)) + Exists(D, t, d, Tail(ks))

\* SetNX that stores the value whether or not the key exists
SetNXOverwrites(D, t, d, k, v) ==
  [Set(D, d, k, v) EXCEPT !.rv = RvInt(IF Exists(D, t, d, <<k>>) > 0 THEN 0 ELSE 1)]

SetNX(D, t, d, k, v) ==
  IF Exists(D, t, d, <<k>>) > 0 THEN Ret(D, <<>>, RvInt(0))
  ELSE [Set(D, d, k, v) EXCEPT !.rv = RvInt(1)]

Expire(D, t, d, k, secs) ==
  LET value == D[d][k] IN
  IF value.ok
  THEN Ret([D EXCEPT ![d][k] = [value EXCEPT !.exp = t + secs * TicksPerSec]],
           << <<"EXPIRE", Itoa(d), k, Itoa(secs)>> >>, RvInt(1))
  ELSE Ret(D, <<>>, RvInt(0))

TTL(D, t, d, k) ==
  LET value == D[d][k] IN
  IF ~value.ok THEN -2
  ELSE IF value.exp = NoExp THEN -1
  ELSE Seconds(value.exp - t)

\* Incr and Decr differ in the step only
IncrBy(D, d, k, step, name) ==
  LET found == D[d][k]
      value == IF found.ok THEN found ELSE NewStringValue("0")
  IN
  IF value.type # TypeString THEN Ret(D, <<>>, RvErr(ErrNotInteger))
  ELSE IF value.kind # "string" THEN Panicked(D, <<>>)   \* value.Data.(string)
  ELSE IF ~AtoiOk(value.str) THEN Ret(D, <<>>, RvErr(ErrNotInteger))
  ELSE LET intValue == WrapInt(Atoi(value.str) + step) IN
       Ret([D EXCEPT ![d][k] = WithString(value, Itoa(intValue))],
           << <<name, Itoa(d), k>> >>, RvInt(intValue))

Incr(D, d, k) == IncrBy(D, d, k, 1, "INCR")

Decr(D, d, k) == IncrBy(D, d, k, -1, "DECR")

\* LPush that prepends the values in argument order
LPushInOrder(D, d, k, values) ==
  LET line == <<"LPUSH", Itoa(d), k>> \o values
      value == D[d][k]
  IN
  IF ~value.ok THEN Ret([D EXCEPT ![d][k] = NewListValue(values)], <<line>>, RvInt(Len(values)))
  ELSE LET list == values \o AsList(value) IN
       Ret([D EXCEPT ![d][k] = WithList(value, list)], <<line>>, RvInt(Len(list)))

LPush(D, d, k, values) ==
  LET line == <<"LPUSH", Itoa(d), k>> \o values
      rev == IF Len(values) > 1 THEN Reverse(values) ELSE values
      value == D[d][k]
  IN
  IF ~value.ok THEN Ret([D EXCEPT ![d][k] = NewListValue(rev)], <<line>>, RvInt(Len(rev)))
  ELSE LET list == rev \o AsList(value) IN
       Ret([D EXCEPT ![d][k] = WithList(value, list)], <<line>>, RvInt(Len(list)))

RPush(D, d, k, values) ==
  LET line == <<"RPUSH", Itoa(d), k>> \o values
      value == D[d][k]
  IN
  IF ~value.ok THEN Ret([D EXCEPT ![d][k] = NewListValue(values)], <<line>>, RvInt(Len(values)))
  ELSE LET list == AsList(value) \o values IN
       Ret([D EXCEPT ![d][k] = WithList(value, list)], <<line>>, RvInt(Len(list)))

\* LPop that takes the elements from the tail of the list
LPopFromTail(D, t, d, k, hasCount, n) ==
  LET value == D[d][k]
      count0 == IF hasCount THEN n ELSE 1
      list == AsList(value)
      len == Len(list)
      count == IF count0 > len THEN len ELSE count0
      popped == Slice(list, len - count, len)
  IN
  IF ~value.ok THEN Ret(D, <<>>, RvNil)
  ELSE IF IsExpired(value, t) THEN Ret(D, <<>>, RvNil)
  ELSE IF count0 < 0 THEN Ret(D, <<>>, RvErr(ErrRange))
  ELSE IF ~AsListOk(value) THEN Ret(D, <<>>, RvErr(ErrWrongType))
  ELSE IF len = 0 THEN Ret(D, <<>>, RvNil)
  ELSE Ret([D EXCEPT ![d][k] = WithList(value, Slice(list, 0, len - count))],
           << <<"LPOP", Itoa(d), k, Itoa(count)>> >>,
           IF count = 1 /\ ~hasCount THEN RvStr(popped[1]) ELSE RvVals(popped))

\* pcount == nil is hasCount = FALSE
LPop(D, t, d, k, hasCount, n) ==
  LET value == D[d][k]
      count0 == IF hasCount THEN n ELSE 1
      list == AsList(value)
      len == Len(list)
      count == IF count0 > len THEN len ELSE count0
      popped == Slice(list, 0, count)
  IN
  IF ~value.ok THEN Ret(D, <<>>, RvNil)
  ELSE IF IsExpired(value, t) THEN Ret(D, <<>>, RvNil)
  ELSE IF count0 < 0 THEN Ret(D, <<>>, RvErr(ErrRange))
  ELSE IF ~AsListOk(value) THEN Ret(D, <<>>, RvErr(ErrWrongType))
  ELSE IF len = 0 THEN Ret(D, <<>>, RvNil)
  ELSE Ret([D EXCEPT ![d][k] = WithList(value, Slice(list, count, len))],
           << <<"LPOP", Itoa(d), k, Itoa(count)>> >>,
           IF count = 1 /\ ~hasCount THEN RvStr(popped[1]) ELSE RvVals(popped))

RPop(D, t, d, k, hasCount, n) ==
  LET value == D[d][k]
      count0 == IF hasCount THEN n ELSE 1
      list == AsList(value)
      len == Len(list)
      count == IF count0 > len THEN len ELSE count0
      popped == Slice(list, len - count, len)
  IN
  IF ~value.ok THEN Ret(D, <<>>, RvNil)
  ELSE IF IsExpired(value, t) THEN Ret(D, <<>>, RvNil)
  ELSE IF count0 < 0 /\ hasCount THEN Ret(D, <<>>, RvErr(ErrRange))
  ELSE IF ~AsListOk(value) THEN Ret(D, <<>>, RvErr(ErrWrongType))
  ELSE IF len = 0 THEN Ret(D, <<>>, RvNil)
  ELSE Ret([D EXCEPT ![d][k] = WithList(value, Slice(list, 0, len - count))],
           << <<"RPOP", Itoa(d), k, Itoa(count)>> >>,
           IF count = 1 /\ ~hasCount THEN RvStr(popped[1]) ELSE RvVals(popped))

\* the index arithmetic shared by LRange and LTrim
NormStart(len, start) ==
  LET s1 == IF start < 0 THEN len + start ELSE start IN IF s1 < 0 THEN 0 ELSE s1

NormStop(len, stop) ==
  LET e1 == IF stop < 0 THEN len + stop ELSE stop IN IF e1 >= len THEN len - 1 ELSE e1

\* LRange that does not lower stop to the last position
LRangeStopNotLowered(D, t, d, k, start0, stop0) ==
  LET value == D[d][k]
      list == AsList(value)
      len == Len(list)
      start == NormStart(len, start0)
      stop == IF stop0 < 0 THEN len + stop0 ELSE stop0
  IN
  IF ~value.ok THEN RvNil
  ELSE IF IsExpired(value, t) THEN RvNil
  ELSE IF ~AsListOk(value) THEN RvErr(ErrWrongType)
  ELSE IF start > stop \/ start >= len \/ stop < 0 THEN RvVals(<<>>)
  ELSE IF ~SliceInRange(list, start, stop + 1) THEN RvPanic
  ELSE RvVals(Slice(list, start, stop + 1))

LRange(D, t, d, k, start0, stop0) ==
  LET value == D[d][k]
      list == AsList(value)
      len == Len(list)
      start == NormStart(len, start0)
      stop == NormStop(len, stop0)
  IN
  IF ~value.ok THEN RvNil
  ELSE IF IsExpired(value, t) THEN RvNil
  ELSE IF ~AsListOk(value) THEN RvErr(ErrWrongType)
  ELSE IF start > stop \/ start >= len \/ stop < 0 THEN RvVals(<<>>)
  ELSE IF ~SliceInRange(list, start, stop + 1) THEN RvPanic
  ELSE RvVals(Slice(list, start, stop + 1))

LTrim(D, t, d, k, start0, stop0) ==
  LET value == D[d][k]
      list == AsList(value)
      len == Len(list)
      start == NormStart(len, start0)
      stop == NormStop(len, stop0)
  IN
  IF ~value.ok THEN Ret(D, <<>>, RvOK)
  ELSE IF IsExpired(value, t) THEN Ret(D, <<>>, RvOK)
  ELSE IF ~AsListOk(value) THEN Ret(D, <<>>, RvOK)
  ELSE IF start > stop \/ start >= len
       \* s.Del locks s.mu, which this call holds: sync.RWMutex is not
       \* reentrant, so Del waits for ever and the deferred Unlock never runs
       THEN Blocked(D, <<>>)
  ELSE Ret([D EXCEPT ![d][k] = WithList(value, Slice(list, start, stop + 1))],
           << <<"LTRIM", Itoa(d), k, Itoa(start), Itoa(stop)>> >>, RvOK)

\* Rename that stores the value under the new key without its expiration
RenameDropsExpiration(D, t, d, oldKey, newKey) ==
  LET value == D[d][oldKey] IN
  IF ~value.ok THEN Ret(D, <<>>, RvErr(ErrNoSuchKey))
  ELSE IF IsExpired(value, t) THEN Ret(D, <<>>, RvOK)
  ELSE LET D1 == IF D[d][newKey].ok THEN delKey(D, d, newKey) ELSE D
           D2 == [D1 EXCEPT ![d][newKey] = [value EXCEPT !.exp = NoExp]]
       IN Ret(delKey(D2, d, oldKey), << <<"RENAME", Itoa(d), oldKey, newKey>> >>, RvOK)

Rename(D, t, d, oldKey, newKey) ==
  LET value == D[d][oldKey] IN
  IF ~value.ok THEN Ret(D, <<>>, RvErr(ErrNoSuchKey))
  ELSE IF IsExpired(value, t) THEN Ret(D, <<>>, RvOK)
  ELSE LET D1 == IF D[d][newKey].ok THEN delKey(D, d, newKey) ELSE D
           D2 == [D1 EXCEPT ![d][newKey] = value]
       IN Ret(delKey(D2, d, oldKey), << <<"RENAME", Itoa(d), oldKey, newKey>> >>, RvOK)

\* FlushDb that replaces every keyspace
FlushDbEverywhere(D, d) ==
  Ret([e \in DOMAIN D |-> EmptyDb], << <<"FLUSHDB", Itoa(d)>> >>, RvOK)

FlushDb(D, d) == Ret(flushDb(D, d), << <<"FLUSHDB", Itoa(d)>> >>, RvOK)

RECURSIVE FlushFrom(_, _)
FlushFrom(D, d) == IF d >= NumDbs THEN D ELSE FlushFrom(flushDb(D, d), d + 1)

FlushAll(D) == Ret(FlushFrom(D, 0), << <<"FLUSHALL">> >>, RvOK)

\* regexp "^" + pattern with "*" replaced by ".*" + "$", for the pattern "*"
\* and for a pattern without metacharacters
MatchString(pattern, key) == pattern = "*" \/ pattern = key

\* Store.Keys: the keys the loop over s.data[dbIndex] collects, in the
\* order the map yields them, as a set
StoreKeys(D, d, pattern) == {k \in Keys : D[d][k].ok /\ MatchString(pattern, k)}

TypeName(type) == IF type = TypeString THEN "string" ELSE IF type = TypeList THEN "list" ELSE "none"

Type(D, d, k) == IF D[d][k].ok THEN TypeName(D[d][k].type) ELSE "none"

\* ---- state ----
VARIABLES
  data,       \* Store.data: 16 keyspaces
  now,        \* the wall clock, in ticks
  mu,         \* Store.mu: "unlocked", or "locked" by a call that never unlocks
  panicked,   \* the process died of a panic
  aofChan,    \* Store.aofChan: the lines sent and not yet received
  aofFile,    \* appendonly.aof: the lines written
  traceFile,  \* whether this run observes the content of appendonly.aof
  last,       \* the latest store command: what was called, what it returned
  nops,       \* how many store commands were issued
  phase,      \* "run", then the steps of a snapshot or of a replay
  rdbFile,    \* dump.rdb: the encoded snapshot
  newData,    \* the keyspaces of the fresh store that is loaded or rebuilt
  rpos,       \* the line of appendonly.aof the replay reads next
  authenticatedConnections,  \* Server.authenticatedConnections: conn -> bool
  connectionDbs,             \* Server.connectionDbs: conn -> selected database
  closed,     \* the connections that were closed
  reply,      \* the latest reply the server wrote, and to which request
  nreq,       \* how many requests the server executed
  sent,       \* the bytes of the message a client wrote to the connection
  reader,     \* the bytes of it that Parse has not read yet
  respValue,  \* what Parse returned
  writer,     \* the bytes Encode wrote
  respPc,     \* where the message is: "idle", "sent", "parsed", "encoded", "error"
  config,     \* Server.config: UseRDB and UseAOF
  flagOk,     \* recoverStore's flagOk: a recovery file was loaded
  inflight,   \* conn -> the push it has sent the log line of and not yet applied
  applied,    \* the log lines of the mutations, in the order they were applied
  snapshot,   \* the copy GetSnapshot is making or has returned
  heap,       \* the arrays that slices of list elements point into
  slices,     \* the slice headers of a list: in the store and in the snapshot
  chanClosed, \* Shutdown closed Store.aofChan
  writerPc,   \* the AOFWriter goroutine: "range" in its loop, "returned" after it
  mainPc      \* main: "serving", then the steps of Shutdown, then "exited"

storeVars == <<data, now, mu, panicked, aofChan, aofFile, traceFile, last, nops>>

recoveryVars == <<phase, rdbFile, newData, rpos>>

serverVars == <<authenticatedConnections, connectionDbs, closed, reply, nreq>>

respVars == <<sent, reader, respValue, writer, respPc>>

startVars == <<config, flagOk>>

orderVars == <<inflight, applied>>

snapVars == <<snapshot, heap, slices>>

exitVars == <<chanClosed, writerPc, mainPc>>

vars == <<storeVars, recoveryVars, serverVars, respVars, startVars, orderVars, snapVars, exitVars>>

\* the snapshot struct of SaveSnapshot; no file yet
NoFile == [exists |-> FALSE, Data |-> <<>>, Expires |-> <<>>]

Cmd0 ==
  [op |-> "", db |-> 0, key |-> "", key2 |-> "", val |-> "", vals |-> <<>>,
   a |-> 0, b |-> 0, has |-> FALSE]

Last0 == [cmd |-> Cmd0, rv |-> RvNil, status |-> "returned"]

NewStore ==
  /\ data = EmptyData
  /\ aofChan = <<>>
  /\ mu = "unlocked"

\* a map with no entry
NoEntries == [c \in {} |-> 0]

Reply0 == [conn |-> "", op |-> "", arg |-> "", val |-> RvNil]

\* NewConfig: both kinds of persistence are on
NewConfig == [UseRDB |-> TRUE, UseAOF |-> TRUE]

\* a connection that is not inside a store call
Idle == [cmd |-> [op |-> ""], step |-> 0, before |-> <<>>]

NothingInFlight == [c \in {"c1", "c2"} |-> Idle]

\* GetSnapshot has not been called
\* (committed: the states of the store between two commands, since it began)
NoSnapshot == [taking |-> FALSE, done |-> FALSE, next |-> 0, copy |-> <<>>, committed |-> {}]

\* a nil slice: no array, no element
NilSlice == [arr |-> 0, off |-> 0, len |-> 0, exp |-> NoExp]

NoSlices == [live |-> NilSlice, snap |-> NilSlice]

\* what the variables outside the store and the connections start as
NoConcurrency ==
  /\ inflight = NothingInFlight
  /\ applied = <<>>
  /\ snapshot = NoSnapshot
  /\ heap = <<>>
  /\ slices = NoSlices
  /\ chanClosed = FALSE
  /\ writerPc = "range"
  /\ mainPc = "serving"

NewServer ==
  /\ config = NewConfig
  /\ NoConcurrency
  /\ flagOk = FALSE
  /\ authenticatedConnections = NoEntries
  /\ connectionDbs = NoEntries
  /\ closed = {}
  /\ reply = Reply0
  /\ nreq = 0
  /\ sent = <<>>
  /\ reader = <<>>
  /\ respValue = [ok |-> FALSE]
  /\ writer = <<>>
  /\ respPc = "idle"

Init ==
  /\ NewStore
  /\ NewServer
  /\ now = 0
  /\ panicked = FALSE
  /\ aofFile = <<>>
  /\ traceFile = FALSE
  /\ last = Last0
  /\ nops = 0
  /\ phase = "run"
  /\ rdbFile = NoFile
  /\ newData = EmptyData
  /\ rpos = 1

\* One store call made by a connection's dispatch loop.  The call takes s.mu,
\* so it starts only when no call holds it; a send on a full channel waits.
CallStore(cmd, r) ==
  /\ mu = "unlocked"
  /\ ~panicked
  /\ Len(aofChan) + Len(r.log) <= MaxPending
  /\ data' = r.data
  /\ aofChan' = aofChan \o r.log
  /\ mu' = IF r.status = "blocked" THEN "locked" ELSE mu
  /\ panicked' = (r.status = "panic")
  /\ last' = [cmd |-> cmd, rv |-> r.rv, status |-> r.status]
  /\ nops' = nops + 1
  /\ UNCHANGED <<now, aofFile, traceFile, recoveryVars>>

\* a store call that is not followed through a connection's session
Call(cmd, r) == CallStore(cmd, r) /\ UNCHANGED <<serverVars, respVars, startVars, orderVars, snapVars, exitVars>>

ExecSet(d, k, v) ==
  Call([Cmd0 EXCEPT !.op = "SET", !.db = d, !.key = k, !.val = v], Set(data, d, k, v))

ExecDel(d, k) ==
  Call([Cmd0 EXCEPT !.op = "DEL", !.db = d, !.key = k], Del(data, d, k))

ExecSetNX(d, k, v) ==
  Call([Cmd0 EXCEPT !.op = "SETNX", !.db = d, !.key = k, !.val = v], SetNX(data, now, d, k, v))

ExecExpire(d, k, secs) ==
  Call([Cmd0 EXCEPT !.op = "EXPIRE", !.db = d, !.key = k, !.a = secs],
       Expire(data, now, d, k, secs))

ExecIncr(d, k) ==
  Call([Cmd0 EXCEPT !.op = "INCR", !.db = d, !.key = k], Incr(data, d, k))

ExecDecr(d, k) ==
  Call([Cmd0 EXCEPT !.op = "DECR", !.db = d, !.key = k], Decr(data, d, k))

ExecLPush(d, k, values) ==
  Call([Cmd0 EXCEPT !.op = "LPUSH", !.db = d, !.key = k, !.vals = values],
       LPush(data, d, k, values))

ExecRPush(d, k, values) ==
  Call([Cmd0 EXCEPT !.op = "RPUSH", !.db = d, !.key = k, !.vals = values],
       RPush(data, d, k, values))

ExecLPop(d, k, hasCount, n) ==
  Call([Cmd0 EXCEPT !.op = "LPOP", !.db = d, !.key = k, !.has = hasCount, !.a = n],
       LPop(data, now, d, k, hasCount, n))

ExecRPop(d, k, hasCount, n) ==
  Call([Cmd0 EXCEPT !.op = "RPOP", !.db = d, !.key = k, !.has = hasCount, !.a = n],
       RPop(data, now, d, k, hasCount, n))

ExecLTrim(d, k, start, stop) ==
  Call([Cmd0 EXCEPT !.op = "LTRIM", !.db = d, !.key = k, !.a = start, !.b = stop],
       LTrim(data, now, d, k, start, stop))

ExecRename(d, k, k2) ==
  Call([Cmd0 EXCEPT !.op = "RENAME", !.db = d, !.key = k, !.key2 = k2],
       Rename(data, now, d, k, k2))

ExecFlushDb(d) ==
  Call([Cmd0 EXCEPT !.op = "FLUSHDB", !.db = d], FlushDb(data, d))

ExecFlushAll ==
  Call([Cmd0 EXCEPT !.op = "FLUSHALL"], FlushAll(data))

\* the wall clock advances
Tick ==
  /\ now < MaxNow
  /\ now' = now + 1
  /\ UNCHANGED <<data, mu, panicked, aofChan, aofFile, traceFile, last, nops, recoveryVars, serverVars, respVars, startVars, orderVars, snapVars, exitVars>>

\* one iteration of `for cmd := range aofChan`
AOFWriter ==
  /\ ~panicked
  /\ aofChan # <<>>
  /\ aofChan' = Tail(aofChan)
  /\ aofFile' = IF traceFile THEN Append(aofFile, Head(aofChan)) ELSE aofFile
  /\ UNCHANGED <<data, now, mu, panicked, traceFile, last, nops, recoveryVars, serverVars, respVars, startVars, orderVars, snapVars, exitVars>>

PushArgs == {<<"a">>, <<"a", "b">>}

PopArgs == {<<FALSE, 1>>} \cup {<<TRUE, n>> : n \in Counts}

\* the commands a client sends, one action per case of executeCommand
SET == nops < MaxOps /\ \E sl \in Slots : \E v \in StrVals : ExecSet(sl[1], sl[2], v)

DEL == nops < MaxOps /\ \E sl \in Slots : ExecDel(sl[1], sl[2])

SETNX == nops < MaxOps /\ \E sl \in Slots : ExecSetNX(sl[1], sl[2], "a")

EXPIRE == nops < MaxOps /\ \E sl \in Slots : \E secs \in TTLSecs : ExecExpire(sl[1], sl[2], secs)

INCR == nops < MaxOps /\ \E sl \in Slots : ExecIncr(sl[1], sl[2])

DECR == nops < MaxOps /\ \E sl \in Slots : ExecDecr(sl[1], sl[2])

LPUSH == nops < MaxOps /\ \E sl \in Slots : \E values \in PushArgs : ExecLPush(sl[1], sl[2], values)

RPUSH == nops < MaxOps /\ \E sl \in Slots : \E values \in PushArgs : ExecRPush(sl[1], sl[2], values)

LPOP == nops < MaxOps /\ \E sl \in Slots : \E p \in PopArgs : ExecLPop(sl[1], sl[2], p[1], p[2])

RPOP == nops < MaxOps /\ \E sl \in Slots : \E p \in PopArgs : ExecRPop(sl[1], sl[2], p[1], p[2])

LTRIM == nops < MaxOps /\ \E sl \in Slots : \E tr \in TrimArgs : ExecLTrim(sl[1], sl[2], tr[1], tr[2])

RENAME == nops < MaxOps /\ \E sl \in Slots : \E k2 \in Keys : ExecRename(sl[1], sl[2], k2)

FLUSHDB == nops < MaxOps /\ \E d \in DBs : ExecFlushDb(d)

FLUSHALL == nops < MaxOps /\ ExecFlushAll

Next ==
  \/ SET
  \/ DEL
  \/ SETNX
  \/ EXPIRE
  \/ INCR
  \/ DECR
  \/ LPUSH
  \/ RPUSH
  \/ LPOP
  \/ RPOP
  \/ LTRIM
  \/ RENAME
  \/ FLUSHDB
  \/ FLUSHALL
  \/ Tick
  \/ AOFWriter

Spec == Init /\ [][Next]_vars

\* ---- replay of the log: RebuildStoreFromAOF ----
\* The first process runs a short fixed mix of commands, each of which may
\* log a line; a fresh store is then rebuilt from the file.
Workload ==
  /\ phase = "run"
  /\ nops < MaxLog
  /\ \/ ExecSet(0, "k1", "1")
     \/ ExecSet(1, "k1", "a")
     \/ ExecDel(0, "k1")
     \/ ExecSetNX(0, "k2", "a")
     \/ ExecExpire(0, "k1", 0)
     \/ ExecExpire(0, "k1", 1)
     \/ ExecIncr(0, "k1")
     \/ ExecDecr(0, "k1")
     \/ ExecLPush(0, "k2", <<"a", "b">>)
     \/ ExecRPush(0, "k2", <<"a">>)
     \/ ExecLPop(0, "k2", FALSE, 1)
     \/ ExecRPop(0, "k2", TRUE, 2)
     \/ ExecLTrim(0, "k2", 0, 0)
     \/ ExecRename(0, "k1", "k2")
     \/ ExecRename(0, "k2", "k1")
     \/ ExecFlushDb(0)
     \/ ExecFlushAll

aofSet(parts, D, dbIndex) ==
  IF Len(parts) = 4 THEN Set(D, dbIndex, parts[3], parts[4]) ELSE Ret(D, <<>>, RvNil)

aofDel(parts, D, dbIndex) ==
  IF Len(parts) = 3 THEN Del(D, dbIndex, parts[3]) ELSE Ret(D, <<>>, RvNil)

aofSetNX(parts, D, t, dbIndex) ==
  IF Len(parts) = 4 THEN SetNX(D, t, dbIndex, parts[3], parts[4]) ELSE Ret(D, <<>>, RvNil)

aofExpire(parts, D, t, dbIndex) ==
  IF Len(parts) = 4 /\ AtoiOk(parts[4])
  THEN Expire(D, t, dbIndex, parts[3], Atoi(parts[4]))
  ELSE Ret(D, <<>>, RvNil)

aofLPush(parts, D, dbIndex) ==
  IF Len(parts) >= 4 THEN LPush(D, dbIndex, parts[3], SubSeq(parts, 4, Len(parts)))
  ELSE Ret(D, <<>>, RvNil)

aofRPush(parts, D, dbIndex) ==
  IF Len(parts) >= 4 THEN RPush(D, dbIndex, parts[3], SubSeq(parts, 4, Len(parts)))
  ELSE Ret(D, <<>>, RvNil)

aofLPop(parts, D, t, dbIndex) ==
  IF Len(parts) = 4 /\ AtoiOk(parts[4])
  THEN LPop(D, t, dbIndex, parts[3], TRUE, Atoi(parts[4]))
  ELSE Ret(D, <<>>, RvNil)

aofRpop(parts, D, t, dbIndex) ==
  IF Len(parts) = 4 /\ AtoiOk(parts[4])
  THEN RPop(D, t, dbIndex, parts[3], TRUE, Atoi(parts[4]))
  ELSE Ret(D, <<>>, RvNil)

\* strconv.Atoi's result is 0 when it fails, and aofLTrim drops the error
AtoiOrZero(x) == IF AtoiOk(x) THEN Atoi(x) ELSE 0

aofLTrim(parts, D, t, dbIndex) ==
  IF Len(parts) = 5
  THEN LTrim(D, t, dbIndex, parts[3], AtoiOrZero(parts[4]), AtoiOrZero(parts[5]))
  ELSE Ret(D, <<>>, RvNil)

aofRename(parts, D, t, dbIndex) ==
  IF Len(parts) = 4 THEN Rename(D, t, dbIndex, parts[3], parts[4]) ELSE Ret(D, <<>>, RvNil)

\* the switch on parts[0]; any other name is logged as unknown and skipped
ReplayCommand(parts, D, t, dbIndex) ==
  CASE parts[1] = "SET" -> aofSet(parts, D, dbIndex)
    [] parts[1] = "DEL" -> aofDel(parts, D, dbIndex)
    [] parts[1] = "SETNX" -> aofSetNX(parts, D, t, dbIndex)
    [] parts[1] = "EXPIRE" -> aofExpire(parts, D, t, dbIndex)
    [] parts[1] = "LPUSH" -> aofLPush(parts, D, dbIndex)
    [] parts[1] = "RPUSH" -> aofRPush(parts, D, dbIndex)
    [] parts[1] = "LPOP" -> aofLPop(parts, D, t, dbIndex)
    [] parts[1] = "RPOP" -> aofRpop(parts, D, t, dbIndex)
    [] parts[1] = "LTRIM" -> aofLTrim(parts, D, t, dbIndex)
    [] parts[1] = "RENAME" -> aofRename(parts, D, t, dbIndex)
    [] OTHER -> Ret(D, <<>>, RvNil)

\* one line of the scanner loop; parts[1] of Go is the second token
ReplayLine(parts, D, t) ==
  IF Len(parts) < 2 THEN Panicked(D, <<>>)            \* parts[1]: index out of range
  ELSE IF ~AtoiOk(parts[2]) THEN Ret(D, <<>>, RvNil)  \* invalid database index
  ELSE ReplayCommand(parts, D, t, Atoi(parts[2]))

\* a fresh store is created and RebuildStoreFromAOF opens the file, once the
\* writer has written every line sent
RebuildStart ==
  /\ phase = "run"
  /\ traceFile
  /\ aofChan = <<>>
  /\ phase' = "replay"
  /\ newData' = EmptyData
  /\ rpos' = 1
  /\ UNCHANGED <<storeVars, serverVars, respVars, startVars, orderVars, snapVars, exitVars, rdbFile>>

\* scanner.Scan() and the body of the loop.  The lines the rebuilt store logs
\* go to its own channel and file, which are not part of this state.
RebuildStep ==
  /\ phase = "replay"
  /\ rpos <= Len(aofFile)
  /\ LET r == ReplayLine(aofFile[rpos], newData, now) IN
       /\ newData' = r.data
       /\ phase' = IF r.status = "returned" THEN "replay" ELSE r.status
  /\ rpos' = rpos + 1
  /\ UNCHANGED <<storeVars, serverVars, respVars, startVars, orderVars, snapVars, exitVars, rdbFile>>

\* the scanner is at the end of the file: return scanner.Err()
RebuildEnd ==
  /\ phase = "replay"
  /\ rpos > Len(aofFile)
  /\ phase' = "rebuilt"
  /\ UNCHANGED <<storeVars, serverVars, respVars, startVars, orderVars, snapVars, exitVars, rdbFile, newData, rpos>>

InitAOF ==
  /\ NewStore
  /\ NewServer
  /\ now = 0
  /\ panicked = FALSE
  /\ aofFile = <<>>
  /\ traceFile = TRUE
  /\ last = Last0
  /\ nops = 0
  /\ phase = "run"
  /\ rdbFile = NoFile
  /\ newData = EmptyData
  /\ rpos = 1

NextAOF ==
  \/ Workload
  \/ AOFWriter
  \/ RebuildStart
  \/ RebuildStep
  \/ RebuildEnd

SpecAOF == InitAOF /\ [][NextAOF]_vars

\* ---- the snapshot: SaveSnapshot, LoadSnapshot ----
GetSnapshot(D) == [i \in DOMAIN D |-> [k \in Keys |-> D[i][k]]]

RestoreFromSnapshot(snap) == snap

\* SaveSnapshot that encodes the payloads only
SaveSnapshotNoExpires(D) ==
  LET snap == GetSnapshot(D) IN
  [exists |-> TRUE,
   Data |-> [i \in DOMAIN snap |-> [k \in Keys |-> [snap[i][k] EXCEPT !.exp = NoExp]]],
   Expires |-> [i \in DOMAIN snap |-> [k \in Keys |-> NoExp]]]

\* the encoded struct: the payloads in Data, the expiration instants in Expires
SaveSnapshot(D) ==
  LET snap == GetSnapshot(D) IN
  [exists |-> TRUE,
   Data |-> [i \in DOMAIN snap |-> [k \in Keys |-> [snap[i][k] EXCEPT !.exp = NoExp]]],
   Expires |-> [i \in DOMAIN snap |-> [k \in Keys |-> snap[i][k].exp]]]

\* the keyspaces LoadSnapshot hands to RestoreFromSnapshot
LoadSnapshot(file) ==
  RestoreFromSnapshot(
    [i \in DOMAIN file.Data |->
       [k \in Keys |-> [file.Data[i][k] EXCEPT !.exp = file.Expires[i][k]]]])

\* the store is saved to dump.rdb under the read lock, and the process ends
Save ==
  /\ phase = "run"
  /\ mu = "unlocked"
  /\ ~panicked
  /\ rdbFile' = SaveSnapshot(data)
  /\ phase' = "saved"
  /\ UNCHANGED <<storeVars, serverVars, respVars, startVars, orderVars, snapVars, exitVars, newData, rpos>>

\* a fresh store is created and dump.rdb is loaded into it
Load ==
  /\ phase = "saved"
  /\ rdbFile.exists
  /\ newData' = LoadSnapshot(rdbFile)
  /\ phase' = "loaded"
  /\ UNCHANGED <<storeVars, serverVars, respVars, startVars, orderVars, snapVars, exitVars, rdbFile, rpos>>

NextRDB ==
  \/ Workload
  \/ Tick
  \/ AOFWriter
  \/ Save
  \/ Load

SpecRDB == Init /\ [][NextRDB]_vars

\* ---- the server: sessions, executeCommand ----
Conns == {"c1", "c2"}

Password == "guest"

Passwords == {"guest", "bad"}

SelectArgs == {"0", "1", "15", "16", "-1", "x"}

ErrNoAuth == "NOAUTH Authentication required."
ErrInvalidPassword == "ERR invalid password"
ErrInvalidDbIndex == "ERR invalid DB index"

\* s.authenticatedConnections[conn]: false when the map has no entry
isAuthenticates(c) ==
  c \in DOMAIN authenticatedConnections /\ authenticatedConnections[c]

\* the map getCurrentDb leaves: an entry 0 is stored for a connection without one
getCurrentDbMap(c) ==
  IF c \in DOMAIN connectionDbs THEN connectionDbs ELSE connectionDbs @@ (c :> 0)

getCurrentDb(c) == getCurrentDbMap(c)[c]

Count(D) == Cardinality(DOMAIN D)

\* SelectDb that stores whatever index it is given
SelectDbUnchecked(dbs, c, dbIndex) ==
  [ok |-> TRUE, dbs |-> [x \in DOMAIN dbs \cup {c} |-> IF x = c THEN dbIndex ELSE dbs[x]]]

\* SelectDb on the map dbs: (err == nil, the map afterwards)
SelectDb(dbs, c, dbIndex) ==
  IF dbIndex < 0 \/ dbIndex >= Count(data) THEN [ok |-> FALSE, dbs |-> dbs]
  ELSE [ok |-> TRUE, dbs |-> [x \in DOMAIN dbs \cup {c} |-> IF x = c THEN dbIndex ELSE dbs[x]]]

\* handleConn read one request of connection c, executeCommand ran and the
\* reply was written; the loop then waits for the next request
Request(c, op, arg, val) ==
  /\ c \notin closed
  /\ nreq < MaxReq
  /\ nreq' = nreq + 1
  /\ reply' = [conn |-> c, op |-> op, arg |-> arg, val |-> val]
  /\ UNCHANGED <<closed, respVars, startVars, orderVars, snapVars, exitVars>>

OnlyServer == UNCHANGED <<storeVars, recoveryVars>>

SrvAuth(c, pw) ==
  /\ Request(c, "AUTH", pw, IF pw = Password THEN RvOK ELSE RvErr(ErrInvalidPassword))
  /\ connectionDbs' = getCurrentDbMap(c)
  /\ authenticatedConnections' =
       IF pw = Password
       THEN [x \in DOMAIN authenticatedConnections \cup {c} |->
               IF x = c THEN TRUE ELSE authenticatedConnections[x]]
       ELSE authenticatedConnections
  /\ OnlyServer

SrvSet(c, k, v) ==
  /\ Request(c, "SET", k, RvOK)
  /\ connectionDbs' = getCurrentDbMap(c)
  /\ CallStore([Cmd0 EXCEPT !.op = "SET", !.db = getCurrentDb(c), !.key = k, !.val = v],
               Set(data, getCurrentDb(c), k, v))
  /\ UNCHANGED authenticatedConnections

SrvGet(c, k) ==
  LET value == Get(data, now, getCurrentDb(c), k) IN
  /\ Request(c, "GET", k, IF ~value.ok THEN RvNil
                          ELSE IF value.kind = "string" THEN RvStr(value.str)
                          ELSE RvVals(value.list))
  /\ mu = "unlocked"
  /\ connectionDbs' = getCurrentDbMap(c)
  /\ UNCHANGED authenticatedConnections
  /\ OnlyServer

SrvDel(c, k) ==
  /\ Request(c, "DEL", k, RvInt(1))
  /\ connectionDbs' = getCurrentDbMap(c)
  /\ CallStore([Cmd0 EXCEPT !.op = "DEL", !.db = getCurrentDb(c), !.key = k],
               Del(data, getCurrentDb(c), k))
  /\ UNCHANGED authenticatedConnections

SrvSelect(c, arg) ==
  LET r == SelectDb(getCurrentDbMap(c), c, Atoi(arg)) IN
  /\ Request(c, "SELECT", arg,
             IF ~AtoiOk(arg) THEN RvErr(ErrInvalidDbIndex)
             ELSE IF ~r.ok THEN RvErr(ErrInvalidDbIndex)
             ELSE RvOK)
  /\ connectionDbs' = IF AtoiOk(arg) THEN r.dbs ELSE getCurrentDbMap(c)
  /\ UNCHANGED authenticatedConnections
  /\ OnlyServer

SrvQuit(c) ==
  /\ Request(c, "QUIT", "", RvOK)
  /\ connectionDbs' = getCurrentDbMap(c)
  /\ UNCHANGED authenticatedConnections
  /\ OnlyServer

\* the client closes its end: Parse returns EOF, handleConn returns and its
\* deferred conn.Close() runs
ClientClose(c) ==
  /\ c \notin closed
  /\ closed' = closed \cup {c}
  /\ UNCHANGED <<authenticatedConnections, connectionDbs, reply, nreq, respVars, startVars, orderVars, snapVars, exitVars>>
  /\ OnlyServer

AUTH == \E c \in Conns, pw \in Passwords : SrvAuth(c, pw)

SrvSET == \E c \in Conns : SrvSet(c, "k1", "a")

SrvGET == \E c \in Conns : SrvGet(c, "k1")

SrvDEL == \E c \in Conns : SrvDel(c, "k1")

SELECT == \E c \in Conns, arg \in SelectArgs : SrvSelect(c, arg)

QUIT == \E c \in Conns : SrvQuit(c)

Close == \E c \in Conns : ClientClose(c)

NextSrv ==
  \/ AUTH
  \/ SrvSET
  \/ SrvGET
  \/ SrvDEL
  \/ SELECT
  \/ QUIT
  \/ Close
  \/ AOFWriter

SpecSrv == Init /\ [][NextSrv]_vars

\* ---- RESP2: Parse and Encode over sequences of bytes ----
CR == "\r"
LF == "\n"
CRLF == <<CR, LF>>

\* fmt.Sprintf("%d", n) as bytes
RECURSIVE NatBytes(_)
NatBytes(n) == IF n < 10 THEN <<Digit(n)>> ELSE NatBytes(n \div 10) \o <<Digit(n % 10)>>

SprintfD(n) == IF n < 0 THEN <<"-">> \o NatBytes(0 - n) ELSE NatBytes(n)

IsDigit(c) == \E n \in 0..9 : Digit(n) = c

DigitVal(c) == CHOOSE n \in 0..9 : Digit(n) = c

RECURSIVE ScanDigits(_, _)
ScanDigits(bytes, acc) ==
  IF bytes # <<>> /\ IsDigit(Head(bytes))
  THEN ScanDigits(Tail(bytes), acc * 10 + DigitVal(Head(bytes)))
  ELSE [val |-> acc, rest |-> bytes]

\* fmt.Fscanf(reader, "%d\r\n", &n): an optional sign, digits, then CR LF
FscanfD(bytes) ==
  LET signed == bytes # <<>> /\ Head(bytes) \in {"+", "-"}
      neg == bytes # <<>> /\ Head(bytes) = "-"
      body == IF signed THEN Tail(bytes) ELSE bytes
      d == ScanDigits(body, 0)
      ok == /\ body # <<>> /\ IsDigit(Head(body))
            /\ Len(d.rest) >= 2 /\ d.rest[1] = CR /\ d.rest[2] = LF
  IN [ok |-> ok,
      val |-> IF neg THEN 0 - d.val ELSE d.val,
      rest |-> IF ok THEN SubSeq(d.rest, 3, Len(d.rest)) ELSE d.rest]

\* reader.ReadString('\n'): the bytes up to and including the first LF
RECURSIVE ReadString(_, _)
ReadString(bytes, line) ==
  IF bytes = <<>> THEN [ok |-> FALSE, line |-> line, rest |-> <<>>]
  ELSE IF Head(bytes) = LF THEN [ok |-> TRUE, line |-> Append(line, LF), rest |-> Tail(bytes)]
  ELSE ReadString(Tail(bytes), Append(line, Head(bytes)))

ParseError(bytes) == [ok |-> FALSE, value |-> [t |-> "none"], rest |-> bytes]

Parsed(v, bytes) == [ok |-> TRUE, value |-> v, rest |-> bytes]

\* "simple" for parseSimpleString, "error" for parseErrorString
parseLine(t, bytes) ==
  LET r == ReadString(bytes, <<>>) IN
  IF ~r.ok THEN ParseError(r.rest)
  ELSE Parsed([t |-> t, s |-> Slice(r.line, 0, Len(r.line) - 2)], r.rest)

parseInteger(bytes) ==
  LET r == FscanfD(bytes) IN
  IF ~r.ok THEN ParseError(r.rest) ELSE Parsed([t |-> "int", n |-> r.val], r.rest)

\* reader.Read(data) is taken to fill data whole
parseBulkString(bytes) ==
  LET r == FscanfD(bytes)
      length == r.val
  IN
  IF ~r.ok THEN ParseError(r.rest)
  ELSE IF length = -1 THEN Parsed([t |-> "bulk", isNil |-> TRUE, b |-> <<>>], r.rest)
  ELSE IF length < 0 \/ Len(r.rest) < length + 2 THEN ParseError(r.rest)
  ELSE Parsed([t |-> "bulk", isNil |-> FALSE, b |-> Slice(r.rest, 0, length)],
              Slice(r.rest, length + 2, Len(r.rest)))

RECURSIVE Parse(_)
RECURSIVE parseItems(_, _, _)

parseArray(bytes) ==
  LET r == FscanfD(bytes) IN
  IF ~r.ok THEN ParseError(r.rest)
  ELSE IF r.val = -1 THEN Parsed([t |-> "array", isNil |-> TRUE, items |-> <<>>], r.rest)
  ELSE IF r.val < 0 THEN ParseError(r.rest)
  ELSE parseItems(r.rest, r.val, <<>>)

\* the loop of parseArray: count items are still to be parsed
parseItems(bytes, count, array) ==
  IF count = 0 THEN Parsed([t |-> "array", isNil |-> FALSE, items |-> array], bytes)
  ELSE LET r == Parse(bytes) IN
       IF ~r.ok THEN ParseError(r.rest)
       ELSE parseItems(r.rest, count - 1, Append(array, r.value))

Parse(bytes) ==
  IF bytes = <<>> THEN ParseError(bytes)
  ELSE LET prefix == Head(bytes)
           rest == Tail(bytes)
       IN
       IF prefix = "+" THEN parseLine("simple", rest)
       ELSE IF prefix = "-" THEN parseLine("error", rest)
       ELSE IF prefix = ":" THEN parseInteger(rest)
       ELSE IF prefix = "$" THEN parseBulkString(rest)
       ELSE IF prefix = "*" THEN parseArray(rest)
       ELSE ParseError(rest)

encodeSimpleString(v) == <<"+">> \o v.s \o CRLF

encodeErrorString(v) == <<"-">> \o v.s \o CRLF

encodeInteger(v) == <<":">> \o SprintfD(v.n) \o CRLF

encodeBulkString(v) ==
  IF v.isNil THEN <<"$", "-", "1">> \o CRLF
  ELSE <<"$">> \o SprintfD(Len(v.b)) \o CRLF \o v.b \o CRLF

RECURSIVE Encode(_)
RECURSIVE encodeItems(_)

\* len(value) of a nil Array is 0
encodeArray(v) == <<"*">> \o SprintfD(Len(v.items)) \o CRLF \o encodeItems(v.items)

encodeItems(items) ==
  IF items = <<>> THEN <<>> ELSE Encode(Head(items)) \o encodeItems(Tail(items))

Encode(v) ==
  IF v.t = "simple" THEN encodeSimpleString(v)
  ELSE IF v.t = "error" THEN encodeErrorString(v)
  ELSE IF v.t = "int" THEN encodeInteger(v)
  ELSE IF v.t = "bulk" THEN encodeBulkString(v)
  ELSE encodeArray(v)

\* the well-formed RESP2 messages a client sends, as bytes
SimpleMsg(text) == <<"+">> \o text \o CRLF
ErrorMsg(text) == <<"-">> \o text \o CRLF
IntegerMsg(n) == <<":">> \o SprintfD(n) \o CRLF
BulkMsg(b) == <<"$">> \o SprintfD(Len(b)) \o CRLF \o b \o CRLF
NullBulkMsg == <<"$", "-", "1", CR, LF>>
NullArrayMsg == <<"*", "-", "1", CR, LF>>

RECURSIVE Concat(_)
Concat(msgs) == IF msgs = <<>> THEN <<>> ELSE Head(msgs) \o Concat(Tail(msgs))

ArrayMsg(msgs) == <<"*">> \o SprintfD(Len(msgs)) \o CRLF \o Concat(msgs)

LeafMsgs ==
  {SimpleMsg(<<"O", "K">>), SimpleMsg(<<>>), ErrorMsg(<<"E", "R", "R">>),
   IntegerMsg(0), IntegerMsg(-1), IntegerMsg(12),
   NullBulkMsg, BulkMsg(<<>>), BulkMsg(<<"a">>), BulkMsg(<<CR, LF>>)}

FlatArrayMsgs ==
  {NullArrayMsg, ArrayMsg(<<>>)}
    \cup {ArrayMsg(<<a>>) : a \in LeafMsgs}
    \cup {ArrayMsg(<<a, b>>) : a \in LeafMsgs, b \in LeafMsgs}

NestedArrayMsgs ==
  LET inner == {NullArrayMsg, ArrayMsg(<<>>), ArrayMsg(<<BulkMsg(<<"a">>)>>)} IN
  {ArrayMsg(<<x>>) : x \in inner}
    \cup {ArrayMsg(<<x, a>>) : x \in inner, a \in {BulkMsg(<<"a">>), IntegerMsg(0)}}
    \cup {ArrayMsg(<<ArrayMsg(<<x>>)>>) : x \in inner}

Messages == LeafMsgs \cup FlatArrayMsgs \cup NestedArrayMsgs

OnlyProtocol == UNCHANGED <<storeVars, recoveryVars, serverVars, startVars, orderVars, snapVars, exitVars>>

\* a client writes one message to the connection
ClientSend ==
  /\ respPc \in {"idle", "encoded"}
  /\ \E m \in Messages : sent' = m /\ reader' = m
  /\ respPc' = "sent"
  /\ writer' = <<>>
  /\ UNCHANGED respValue
  /\ OnlyProtocol

\* handleConn: value, err := s.Protocol.Parse(reader)
ParseRequest ==
  /\ respPc = "sent"
  /\ respValue' = Parse(reader)
  /\ reader' = respValue'.rest
  /\ respPc' = IF respValue'.ok THEN "parsed" ELSE "error"
  /\ UNCHANGED <<sent, writer>>
  /\ OnlyProtocol

\* the parsed value is written back with s.Protocol.Encode(writer, value)
EncodeValue ==
  /\ respPc = "parsed"
  /\ writer' = Encode(respValue.value)
  /\ respPc' = "encoded"
  /\ UNCHANGED <<sent, reader, respValue>>
  /\ OnlyProtocol

NextRESP ==
  \/ ClientSend
  \/ ParseRequest
  \/ EncodeValue

SpecRESP == Init /\ [][NextRESP]_vars

\* ---- LRANGE: reads of a stored list ----
\* the lists of at most MaxLen elements
Lists == UNION {[1..n -> StrVals] : n \in 0..MaxLen}

\* The store after RPUSH 0 k1 <elements> (or after the list was emptied by
\* pops), with or without EXPIRE 0 k1 1, once the log lines were written.
InitLRange ==
  /\ \E l \in Lists, e \in {NoExp, TicksPerSec} :
       data = [EmptyData EXCEPT ![0]["k1"] = [NewListValue(l) EXCEPT !.exp = e]]
  /\ aofChan = <<>>
  /\ mu = "unlocked"
  /\ NewServer
  /\ now = 0
  /\ panicked = FALSE
  /\ aofFile = <<>>
  /\ traceFile = FALSE
  /\ last = Last0
  /\ nops = 0
  /\ phase = "run"
  /\ rdbFile = NoFile
  /\ newData = EmptyData
  /\ rpos = 1

\* LRange writes nothing to the store and sends no log line
ExecLRange(d, k, start, stop) ==
  LET rv == LRange(data, now, d, k, start, stop) IN
  Call([Cmd0 EXCEPT !.op = "LRANGE", !.db = d, !.key = k, !.a = start, !.b = stop],
       IF rv = RvPanic THEN Panicked(data, <<>>) ELSE Ret(data, <<>>, rv))

LRANGE ==
  nops < MaxOps /\ \E k \in Keys, start \in Indexes, stop \in Indexes :
    ExecLRange(0, k, start, stop)

NextLRange ==
  \/ LRANGE
  \/ Tick

SpecLRange == InitLRange /\ [][NextLRange]_vars

\* ---- INCR and DECR on a stored value ----
\* what k1 of database 0 holds when the counter commands arrive
IncrValues ==
  {NoKey, NewListValue(<<"a">>)} \cup
  {NewStringValue(v) : v \in {"a", "1", "-1", Itoa(MaxInt), Itoa(MinInt), Itoa(MaxInt + 1)}}

\* The store after SET 0 k1 <string> or RPUSH 0 k1 a (or nothing), with or
\* without EXPIRE 0 k1 0, once the log lines were written.
InitIncr ==
  /\ \E value \in IncrValues, e \in {NoExp, 0} :
       data = [EmptyData EXCEPT ![0]["k1"] =
                 IF value.ok THEN [value EXCEPT !.exp = e] ELSE value]
  /\ aofChan = <<>>
  /\ mu = "unlocked"
  /\ NewServer
  /\ now = 0
  /\ panicked = FALSE
  /\ aofFile = <<>>
  /\ traceFile = FALSE
  /\ last = Last0
  /\ nops = 0
  /\ phase = "run"
  /\ rdbFile = NoFile
  /\ newData = EmptyData
  /\ rpos = 1

NextIncr ==
  \/ INCR
  \/ DECR
  \/ Tick
  \/ AOFWriter

SpecIncr == InitIncr /\ [][NextIncr]_vars

\* ---- SCAN: one page of the keys of a database ----
\* the bytes of a key
KeyChars(k) == IF k = "k1" THEN <<"k", "1">> ELSE <<"k", "2">>

\* MATCH arguments, byte by byte
ScanPatterns == {<<"*">>, <<"k", "?">>, <<"k", "2">>, <<"k", ".">>, <<"?">>}

ScanCursors == {-2, 0, 1, 2}

\* COUNT arguments: none, or a number
ScanCounts == {<<FALSE, 0>>, <<TRUE, 0>>, <<TRUE, 1>>, <<TRUE, 2>>}

DefaultCount == 10

\* "^" + ReplaceAll(ReplaceAll(pattern, "?", "."), "*", ".*") + "$": the
\* atoms of the regular expression, one for each byte of the pattern.  A "."
\* of the pattern is copied as it is, and in the expression matches any byte.
RegexAtoms(pattern) ==
  [i \in 1..Len(pattern) |->
     IF pattern[i] = "*" THEN "any*"
     ELSE IF pattern[i] \in {"?", "."} THEN "any"
     ELSE pattern[i]]

\* re.MatchString(key) from atom i and byte j on
RECURSIVE ReMatchFrom(_, _, _, _)
ReMatchFrom(atoms, i, bytes, j) ==
  IF i > Len(atoms) THEN j > Len(bytes)
  ELSE IF atoms[i] = "any*"
       THEN \/ ReMatchFrom(atoms, i + 1, bytes, j)
            \/ j <= Len(bytes) /\ ReMatchFrom(atoms, i, bytes, j + 1)
  ELSE IF atoms[i] = "any"
       THEN j <= Len(bytes) /\ ReMatchFrom(atoms, i + 1, bytes, j + 1)
  ELSE j <= Len(bytes) /\ bytes[j] = atoms[i] /\ ReMatchFrom(atoms, i + 1, bytes, j + 1)

ReMatch(pattern, key) == ReMatchFrom(RegexAtoms(pattern), 1, KeyChars(key), 1)

\* the keys that `for key := range s.data[dbIndex]` appends to allKeys
ScanLive(D, t, d) == {k \in Keys : D[d][k].ok /\ ~IsExpired(D[d][k], t)}

\* the orders in which a range over a Go map may visit them
ScanOrders(D, t, d) ==
  LET live == ScanLive(D, t, d) IN
  {o \in [1..Cardinality(live) -> live] : \A i, j \in DOMAIN o : i # j => o[i] # o[j]}

\* Store.Scan, for the order allKeys of this call's range over the map
Scan(allKeys, cursor, pattern, count0) ==
  LET n == Len(allKeys)
      count == IF count0 <= 0 THEN DefaultCount ELSE count0
      end == IF cursor + count > n THEN n ELSE cursor + count
      keySlice == Slice(allKeys, cursor, end)
      keep(key) == ReMatch(pattern, key)
      matchedKeys == IF pattern # <<>> /\ pattern # <<"*">>
                     THEN SelectSeq(keySlice, keep)
                     ELSE keySlice
  IN
  IF cursor < 0 \/ cursor >= n THEN [RvVals(<<>>) EXCEPT !.i = 0]
  ELSE [RvVals(matchedKeys) EXCEPT !.i = IF end >= n THEN 0 ELSE end]

\* case "SCAN" of executeCommand: the cursor, then MATCH and COUNT
ExecScan(d, cursor, hasMatch, match, hasCount, c, allKeys) ==
  LET pattern == IF hasMatch THEN match ELSE <<"*">>
      count == IF hasCount THEN c ELSE DefaultCount
      cmd == [Cmd0 EXCEPT !.op = "SCAN", !.db = d, !.a = cursor, !.b = count,
                          !.vals = pattern, !.has = hasCount]
  IN
  IF hasCount /\ c <= 0 THEN Call(cmd, Ret(data, <<>>, RvErr(ErrNotInteger)))
  ELSE Call(cmd, Ret(data, <<>>, Scan(allKeys, cursor, pattern, count)))

SCAN ==
  nops < MaxOps /\ \E cursor \in ScanCursors, hasMatch \in BOOLEAN, match \in ScanPatterns,
                      cnt \in ScanCounts, allKeys \in ScanOrders(data, now, 0) :
    /\ ~hasMatch => match = <<"*">>
    /\ ExecScan(0, cursor, hasMatch, match, cnt[1], cnt[2], allKeys)

\* what a key of database 0 holds when SCAN arrives
ScanValues == {NoKey, NewStringValue("a"), [NewStringValue("a") EXCEPT !.exp = 0]}

\* The store after SET (and EXPIRE ... 0) of some keys of database 0, once
\* the log lines were written.
InitScan ==
  /\ \E v1 \in ScanValues, v2 \in ScanValues :
       data = [EmptyData EXCEPT ![0]["k1"] = v1, ![0]["k2"] = v2]
  /\ aofChan = <<>>
  /\ mu = "unlocked"
  /\ NewServer
  /\ now = 0
  /\ panicked = FALSE
  /\ aofFile = <<>>
  /\ traceFile = FALSE
  /\ last = Last0
  /\ nops = 0
  /\ phase = "run"
  /\ rdbFile = NoFile
  /\ newData = EmptyData
  /\ rpos = 1

NextScan ==
  \/ SCAN
  \/ Tick

SpecScan == InitScan /\ [][NextScan]_vars

\* ---- commands on several databases ----
\* the databases that connections have selected
SelectedDbs == {0, NumDbs - 1}

\* what k1 of a database holds when the commands arrive
DbValues == {NoKey, NewStringValue("1")}

\* The store after SET d k1 1 on some of the databases 0, 1 and 15, once the
\* log lines were written.
InitDbs ==
  /\ \E v0 \in DbValues, v1 \in DbValues, v15 \in DbValues :
       data = [EmptyData EXCEPT ![0]["k1"] = v0, ![1]["k1"] = v1, ![NumDbs - 1]["k1"] = v15]
  /\ aofChan = <<>>
  /\ mu = "unlocked"
  /\ NewServer
  /\ now = 0
  /\ panicked = FALSE
  /\ aofFile = <<>>
  /\ traceFile = FALSE
  /\ last = Last0
  /\ nops = 0
  /\ phase = "run"
  /\ rdbFile = NoFile
  /\ newData = EmptyData
  /\ rpos = 1

\* one command of a connection whose database is d
CommandOn(d) ==
  \/ ExecSet(d, "k1", "a")
  \/ ExecDel(d, "k1")
  \/ ExecSetNX(d, "k2", "a")
  \/ ExecExpire(d, "k1", 1)
  \/ ExecIncr(d, "k1")
  \/ ExecDecr(d, "k1")
  \/ ExecLPush(d, "k2", <<"a", "b">>)
  \/ ExecRPush(d, "k2", <<"a">>)
  \/ ExecLPop(d, "k2", FALSE, 1)
  \/ ExecRPop(d, "k2", TRUE, 2)
  \/ ExecLTrim(d, "k2", 0, 0)
  \/ ExecRename(d, "k1", "k2")
  \/ ExecFlushDb(d)

Command == nops < MaxCmds /\ \E d \in SelectedDbs : CommandOn(d)

FlushAllCommand == nops < MaxCmds /\ ExecFlushAll

NextDbs ==
  \/ Command
  \/ FlushAllCommand
  \/ AOFWriter

SpecDbs == InitDbs /\ [][NextDbs]_vars

\* ---- startup: Server.Start and recoverStore ----
\* a value of 65,536 bytes or more: its SET line does not fit the buffer of
\* bufio.Scanner, whose Scan then stops with ErrTooLong
LongValue == "v65536"

TooLong(line) == \E i \in DOMAIN line : line[i] = LongValue

\* appendonly.aof as earlier runs of the server left it
AofLogs ==
  {<<>>,
   << <<"SET", "0", "k1", "a">> >>,
   << <<"SET", "0", "k1", "a">>, <<"DEL", "0", "k1">> >>,
   << <<"SET", "0", "k1", "a">>, <<"SET", "0", "k2", LongValue>> >>,
   << <<"SET", "0", "k2", LongValue>> >>,
   << <<"INCR", "0", "k1">> >>,
   << <<"FLUSHALL">> >>}

\* dump.rdb as earlier runs left it: missing, or the snapshot of a store
RdbFiles ==
  {NoFile,
   SaveSnapshot([EmptyData EXCEPT ![0]["k1"] = NewStringValue("1")]),
   SaveSnapshot([EmptyData EXCEPT ![1]["k2"] = [NewListValue(<<"a", "b">>) EXCEPT !.exp = 1]])}

\* the configurations with persistence enabled
Configs == {c \in [UseRDB : BOOLEAN, UseAOF : BOOLEAN] : c.UseRDB \/ c.UseAOF}

\* NewServer with a configuration taken from the environment, before Start
InitStart ==
  /\ config \in Configs
  /\ NoConcurrency
  /\ rdbFile \in RdbFiles
  /\ aofFile \in AofLogs
  /\ flagOk = FALSE
  /\ NewStore
  /\ authenticatedConnections = NoEntries
  /\ connectionDbs = NoEntries
  /\ closed = {}
  /\ reply = Reply0
  /\ nreq = 0
  /\ sent = <<>>
  /\ reader = <<>>
  /\ respValue = [ok |-> FALSE]
  /\ writer = <<>>
  /\ respPc = "idle"
  /\ now = 0
  /\ panicked = FALSE
  /\ traceFile = TRUE
  /\ last = Last0
  /\ nops = 0
  /\ phase = "boot"
  /\ newData = EmptyData
  /\ rpos = 1

OnlyRecovery ==
  UNCHANGED <<now, traceFile, last, nops, aofFile, rdbFile, newData, config, serverVars, respVars, orderVars, snapVars, exitVars>>

\* recoverStore: if s.config.UseRDB, rdb.LoadSnapshot
RecoverSnapshot ==
  /\ phase = "boot"
  /\ phase' = "snapshot tried"
  /\ IF config.UseRDB /\ rdbFile.exists
     THEN data' = LoadSnapshot(rdbFile) /\ flagOk' = TRUE
     ELSE UNCHANGED <<data, flagOk>>
  /\ UNCHANGED <<mu, panicked, aofChan, rpos>>
  /\ OnlyRecovery

\* recoverStore: if s.config.UseAOF && !flagOk, RebuildStoreFromAOF opens
\* the file; os.Open fails when there is no file
RecoverOpenLog ==
  /\ phase = "snapshot tried"
  /\ IF config.UseAOF /\ ~flagOk
     THEN \E opened \in BOOLEAN :
            /\ ~opened => aofFile = <<>>
            /\ phase' = IF opened THEN "replay" ELSE "recovered"
     ELSE phase' = "recovered"
  /\ UNCHANGED <<data, flagOk, mu, panicked, aofChan, rpos>>
  /\ OnlyRecovery

\* scanner.Scan() and the body of the loop, on the server's own store: the
\* store methods send their log lines to s.aofChan, which nothing receives
\* from before Start has started the writer
RecoverReplayLine ==
  /\ phase = "replay"
  /\ rpos <= Len(aofFile)
  /\ IF TooLong(aofFile[rpos])
     THEN /\ phase' = "recovered"
          /\ UNCHANGED <<data, flagOk, mu, panicked, aofChan, rpos>>
     ELSE LET r == ReplayLine(aofFile[rpos], data, now) IN
          /\ Len(aofChan) + Len(r.log) <= MaxPending
          /\ data' = r.data
          /\ aofChan' = aofChan \o r.log
          /\ mu' = IF r.status = "blocked" THEN "locked" ELSE mu
          /\ panicked' = (r.status = "panic")
          /\ phase' = IF r.status = "returned" THEN "replay" ELSE r.status
          /\ rpos' = rpos + 1
          /\ UNCHANGED flagOk
  /\ OnlyRecovery

\* the scanner is at the end of the file and scanner.Err() is nil
RecoverReplayEnd ==
  /\ phase = "replay"
  /\ rpos > Len(aofFile)
  /\ flagOk' = TRUE
  /\ phase' = "recovered"
  /\ UNCHANGED <<data, mu, panicked, aofChan, rpos>>
  /\ OnlyRecovery

\* Start goes on: go aof.AOFWriter(s.store.AOFChannel(), aofFilepath), Listen
StartServing ==
  /\ phase = "recovered"
  /\ phase' = "serving"
  /\ UNCHANGED <<data, flagOk, mu, panicked, aofChan, rpos>>
  /\ OnlyRecovery

\* the writer that Start started appends to appendonly.aof
ServingWriter ==
  /\ phase = "serving"
  /\ config.UseAOF
  /\ AOFWriter

NextStart ==
  \/ RecoverSnapshot
  \/ RecoverOpenLog
  \/ RecoverReplayLine
  \/ RecoverReplayEnd
  \/ StartServing
  \/ ServingWriter

SpecStart == InitStart /\ [][NextStart]_vars

\* the goroutine of main runs Start on; so does the writer once it is started
FairStart ==
  /\ SpecStart
  /\ WF_vars(RecoverSnapshot) /\ WF_vars(RecoverOpenLog)
  /\ WF_vars(RecoverReplayLine) /\ WF_vars(RecoverReplayEnd)
  /\ WF_vars(StartServing) /\ WF_vars(ServingWriter)

\* ---- two connections: log lines and mutations ----
\* the value a connection writes
ConnValue(c) == IF c = "c1" THEN "a" ELSE "b"

\* the store calls that have started and not returned
InFlight == {c \in Conns : inflight[c] # Idle}

\* Store.Set for a connection: the send and the assignment both happen
\* between s.mu.Lock() and the deferred Unlock
ConnSet(c) ==
  /\ nops + Cardinality(InFlight) < MaxCmds
  /\ inflight[c] = Idle
  /\ LET r == Set(data, 0, "k1", ConnValue(c)) IN
       /\ CallStore([Cmd0 EXCEPT !.op = "SET", !.db = 0, !.key = "k1", !.val = ConnValue(c)], r)
       /\ applied' = applied \o r.log
  /\ UNCHANGED <<inflight, serverVars, respVars, startVars, snapVars, exitVars>>

\* the line LPush or RPush sends for the command
PushLine(cmd) ==
  IF cmd.op = "LPUSH" THEN LPush(EmptyData, cmd.db, cmd.key, cmd.vals).log[1]
  ELSE RPush(EmptyData, cmd.db, cmd.key, cmd.vals).log[1]

\* Store.LPush / Store.RPush up to the send: `s.aofChan <- ...` comes before
\* s.mu.Lock(), so it neither waits for the lock nor holds it
ConnPushSend(c, op) ==
  /\ nops + Cardinality(InFlight) < MaxCmds
  /\ inflight[c] = Idle
  /\ ~panicked
  /\ Len(aofChan) < MaxPending
  /\ LET cmd == [Cmd0 EXCEPT !.op = op, !.db = 0, !.key = "k1", !.vals = <<ConnValue(c)>>] IN
       /\ aofChan' = Append(aofChan, PushLine(cmd))
       /\ inflight' = [inflight EXCEPT ![c] = [Idle EXCEPT !.cmd = cmd, !.step = 1]]
  /\ UNCHANGED <<data, now, mu, panicked, aofFile, traceFile, last, nops, applied>>
  /\ UNCHANGED <<recoveryVars, serverVars, respVars, startVars, snapVars, exitVars>>

\* the rest of the call: s.mu.Lock(), the assignment to s.data, Unlock
ConnPushApply(c) ==
  /\ inflight[c].step = 1
  /\ LET cmd == inflight[c].cmd
         r == IF cmd.op = "LPUSH" THEN LPush(data, cmd.db, cmd.key, cmd.vals)
              ELSE RPush(data, cmd.db, cmd.key, cmd.vals)
     IN
     /\ CallStore(cmd, [r EXCEPT !.log = <<>>])
     /\ applied' = applied \o r.log
  /\ inflight' = [inflight EXCEPT ![c] = Idle]
  /\ UNCHANGED <<serverVars, respVars, startVars, snapVars, exitVars>>

ConnSET == \E c \in Conns : ConnSet(c)

ConnPUSH == \E c \in Conns, op \in {"LPUSH", "RPUSH"} : ConnPushSend(c, op)

ConnPushed == \E c \in Conns : ConnPushApply(c)

NextOrder ==
  \/ ConnSET
  \/ ConnPUSH
  \/ ConnPushed
  \/ AOFWriter

SpecOrder == InitAOF /\ [][NextOrder]_vars

\* ---- shutdown: main closes the channel, saves and returns ----
\* the goroutines of the process run while main has not returned and no
\* goroutine has panicked
ProcessRuns == mainPc # "exited" /\ ~panicked

\* a connection's SET while the process runs; a send on the closed channel
\* panics
ExitSet(c) ==
  /\ ProcessRuns
  /\ IF chanClosed
       THEN /\ nops + Cardinality(InFlight) < MaxCmds
            /\ mu = "unlocked"
            /\ panicked' = TRUE
            /\ UNCHANGED <<data, now, mu, aofChan, aofFile, traceFile, last, nops, recoveryVars,
                           serverVars, respVars, startVars, orderVars, snapVars, exitVars>>
       ELSE ConnSet(c)

ExitSET == \E c \in Conns : ExitSet(c)

\* AOFWriter's loop receives a line and writes it
WriterReceive ==
  /\ ProcessRuns
  /\ writerPc = "range"
  /\ AOFWriter

\* AOFWriter's loop ends: the channel is closed and empty; the file is closed
WriterReturn ==
  /\ ProcessRuns
  /\ writerPc = "range"
  /\ chanClosed
  /\ aofChan = <<>>
  /\ writerPc' = "returned"
  /\ UNCHANGED <<storeVars, recoveryVars, serverVars, respVars, startVars, orderVars, snapVars,
                 chanClosed, mainPc>>

\* Shutdown, first half: close the channel
ShutdownClose ==
  /\ ProcessRuns
  /\ mainPc = "serving"
  /\ chanClosed' = (config.UseAOF \/ chanClosed)
  /\ mainPc' = "closed"
  /\ UNCHANGED <<storeVars, recoveryVars, serverVars, respVars, startVars, orderVars, snapVars,
                 writerPc>>

\* Shutdown, second half: the last snapshot
ShutdownSave ==
  /\ ProcessRuns
  /\ mainPc = "closed"
  /\ mu = "unlocked"
  /\ rdbFile' = IF config.UseRDB THEN SaveSnapshot(data) ELSE rdbFile
  /\ mainPc' = "saved"
  /\ UNCHANGED <<storeVars, phase, newData, rpos, serverVars, respVars, startVars, orderVars,
                 snapVars, chanClosed, writerPc>>

\* main returns and the process ends, whatever its goroutines were doing
MainReturn ==
  /\ ProcessRuns
  /\ mainPc = "saved"
  /\ mainPc' = "exited"
  /\ UNCHANGED <<storeVars, recoveryVars, serverVars, respVars, startVars, orderVars, snapVars,
                 chanClosed, writerPc>>

NextExit ==
  \/ ExitSET
  \/ Tick
  \/ WriterReceive
  \/ WriterReturn
  \/ ShutdownClose
  \/ ShutdownSave
  \/ MainReturn

SpecExit == InitAOF /\ [][NextExit]_vars

\* the scheduler runs every goroutine that can step
FairExit ==
  /\ SpecExit
  /\ WF_vars(WriterReceive)
  /\ WF_vars(WriterReturn)
  /\ WF_vars(ShutdownSave)
  /\ WF_vars(MainReturn)

\* ---- the list of one key as Go keeps it: a slice header into an array ----
\* cap(s): the room from the slice's first element to the end of its array
Cap(h, H) == IF h.arr = 0 THEN 0 ELSE Len(H[h.arr]) - h.off

\* the elements s[0], ..., s[len(s)-1]
Elems(h, H) == IF h.arr = 0 THEN <<>> ELSE SubSeq(H[h.arr], h.off + 1, h.off + h.len)

\* s[lo:hi]: the same array, another window
Reslice(h, lo, hi) == [h EXCEPT !.off = h.off + lo, !.len = hi - lo]

\* make([]any, n) filled with the values: a new array, full
NewArray(H, values) ==
  [heap |-> Append(H, values),
   s |-> [NilSlice EXCEPT !.arr = Len(H) + 1, !.len = Len(values)]]

\* the capacity append asks for when the array has no room (small slices)
GrowCap(old, needed) == IF needed > 2 * old THEN needed ELSE 2 * old

\* append(s, values...): in the array of s when it has room, else in a new one
AppendSlice(h, values, H) ==
  LET needed == h.len + Len(values) IN
  IF needed <= Cap(h, H)
  THEN [heap |-> [H EXCEPT ![h.arr] =
                    [i \in 1 .. Len(H[h.arr]) |->
                       IF i > h.off + h.len /\ i <= h.off + needed
                       THEN values[i - h.off - h.len] ELSE H[h.arr][i]]],
        s |-> [h EXCEPT !.len = needed]]
  ELSE LET zeros == [i \in 1 .. (GrowCap(Cap(h, H), needed) - needed) |-> ""] IN
       [heap |-> Append(H, Elems(h, H) \o values \o zeros),
        s |-> [h EXCEPT !.arr = Len(H) + 1, !.off = 0, !.len = needed]]

\* a store command on list k1 of database 0, and the slice it leaves there
SliceCall(cmd, r, s, H) ==
  /\ CallStore(cmd, r)
  /\ slices' = [slices EXCEPT !.live = s]
  /\ heap' = H
  /\ UNCHANGED <<snapshot, serverVars, respVars, startVars, orderVars, exitVars>>

SliceRPush(values) ==
  LET r == RPush(data, 0, "k1", values)
      cmd == [Cmd0 EXCEPT !.op = "RPUSH", !.db = 0, !.key = "k1", !.vals = values]
      arg == NewArray(heap, values)
      app == AppendSlice(slices.live, values, heap)
  IN
  IF ~data[0]["k1"].ok THEN SliceCall(cmd, r, arg.s, arg.heap)
  ELSE SliceCall(cmd, r, app.s, app.heap)

SliceLPush(values) ==
  LET r == LPush(data, 0, "k1", values)
      cmd == [Cmd0 EXCEPT !.op = "LPUSH", !.db = 0, !.key = "k1", !.vals = values]
      rev == IF Len(values) > 1 THEN Reverse(values) ELSE values
      arg == NewArray(heap, rev)
      app == AppendSlice(arg.s, Elems(slices.live, heap), arg.heap)
  IN
  IF ~data[0]["k1"].ok THEN SliceCall(cmd, r, arg.s, arg.heap)
  ELSE SliceCall(cmd, r, [app.s EXCEPT !.exp = slices.live.exp], app.heap)

SliceRPop(hasCount, n) ==
  LET r == RPop(data, now, 0, "k1", hasCount, n)
      cmd == [Cmd0 EXCEPT !.op = "RPOP", !.db = 0, !.key = "k1", !.has = hasCount, !.a = n]
      count0 == IF hasCount THEN n ELSE 1
      len == slices.live.len
      count == IF count0 > len THEN len ELSE count0
  IN
  IF r.log = <<>> THEN SliceCall(cmd, r, slices.live, heap)
  ELSE SliceCall(cmd, r, Reslice(slices.live, 0, len - count), heap)

SliceLPop(hasCount, n) ==
  LET r == LPop(data, now, 0, "k1", hasCount, n)
      cmd == [Cmd0 EXCEPT !.op = "LPOP", !.db = 0, !.key = "k1", !.has = hasCount, !.a = n]
      count0 == IF hasCount THEN n ELSE 1
      len == slices.live.len
      count == IF count0 > len THEN len ELSE count0
  IN
  IF r.log = <<>> THEN SliceCall(cmd, r, slices.live, heap)
  ELSE SliceCall(cmd, r, Reslice(slices.live, count, len), heap)

SliceExpire(secs) ==
  LET r == Expire(data, now, 0, "k1", secs)
      cmd == [Cmd0 EXCEPT !.op = "EXPIRE", !.db = 0, !.key = "k1", !.a = secs]
  IN
  SliceCall(cmd, r, [slices.live EXCEPT !.exp = r.data[0]["k1"].exp], heap)

\* GetSnapshot: dataCopy[i][k] = v copies the Value, and with it the slice
\* header and the expiration pointer, not the array
SliceGetSnapshot ==
  /\ ~snapshot.done
  /\ mu = "unlocked"
  /\ ~panicked
  /\ snapshot' = [NoSnapshot EXCEPT !.done = TRUE, !.next = NumDbs, !.copy = GetSnapshot(data),
                                    !.committed = {data}]
  /\ slices' = [slices EXCEPT !.snap = slices.live]
  /\ UNCHANGED <<storeVars, recoveryVars, serverVars, respVars, startVars, orderVars, heap,
                 exitVars>>

SliceRPUSH == nops < MaxOps /\ \E values \in PushArgs : SliceRPush(values)

SliceLPUSH == nops < MaxOps /\ \E values \in PushArgs : SliceLPush(values)

SliceRPOP == nops < MaxOps /\ \E p \in PopArgs : SliceRPop(p[1], p[2])

SliceLPOP == nops < MaxOps /\ \E p \in PopArgs : SliceLPop(p[1], p[2])

SliceEXPIRE == nops < MaxOps /\ \E secs \in TTLSecs : SliceExpire(secs)

NextSlices ==
  \/ SliceRPUSH
  \/ SliceLPUSH
  \/ SliceRPOP
  \/ SliceLPOP
  \/ SliceEXPIRE
  \/ SliceGetSnapshot
  \/ Tick
  \/ AOFWriter

SpecSlices == InitAOF /\ [][NextSlices]_vars

\* what is read through a Value: its presence, its elements, its expiration
Seen(h, H) == [ok |-> h.arr # 0, list |-> Elems(h, H), exp |-> h.exp]

\* ---- GetSnapshot while connections run RENAME and FLUSHALL ----
\* what db 0 and db 15 hold when the commands arrive
SnapValues == {NoKey, NewStringValue("1"), [NewStringValue("1") EXCEPT !.exp = 0]}

InitSnap ==
  /\ \E v1 \in SnapValues, v2 \in {NoKey, NewStringValue("a")}, v15 \in {NoKey, NewStringValue("1")} :
       data = [EmptyData EXCEPT ![0]["k1"] = v1, ![0]["k2"] = v2, ![NumDbs - 1]["k1"] = v15]
  /\ aofChan = <<>>
  /\ mu = "unlocked"
  /\ NewServer
  /\ now = 0
  /\ panicked = FALSE
  /\ aofFile = <<>>
  /\ traceFile = FALSE
  /\ last = Last0
  /\ nops = 0
  /\ phase = "run"
  /\ rdbFile = NoFile
  /\ newData = EmptyData
  /\ rpos = 1

\* where a call stands once its mutation is done, and after an early return
Logged == NumDbs + 1

Early == NumDbs + 2

\* s.mu.Lock(): the call waits until no one holds the lock
CmdLock(c, cmd) ==
  /\ nops + Cardinality(InFlight) < MaxCmds
  /\ inflight[c] = Idle
  /\ ~panicked
  /\ mu = "unlocked"
  /\ mu' = "locked"
  /\ inflight' = [inflight EXCEPT ![c] = [cmd |-> cmd, step |-> 1, before |-> data]]
  /\ UNCHANGED <<data, now, panicked, aofChan, aofFile, traceFile, last, nops, applied>>
  /\ UNCHANGED <<recoveryVars, serverVars, respVars, startVars, snapVars, exitVars>>

\* Rename, statement by statement: the checks and delKey(newKey), the
\* assignment of newKey, delKey(oldKey)
RenameStep(D, t, f) ==
  LET d == f.cmd.db
      oldKey == f.cmd.key
      newKey == f.cmd.key2
      value == f.before[d][oldKey]
  IN
  CASE f.step = 1 ->
         IF ~value.ok \/ IsExpired(value, t) THEN [data |-> D, step |-> Early]
         ELSE [data |-> IF D[d][newKey].ok THEN delKey(D, d, newKey) ELSE D, step |-> 2]
    [] f.step = 2 -> [data |-> [D EXCEPT ![d][newKey] = value], step |-> 3]
    [] f.step = 3 -> [data |-> delKey(D, d, oldKey), step |-> Logged]

\* FlushAll, keyspace by keyspace
FlushAllStep(D, f) == [data |-> flushDb(D, f.step - 1), step |-> f.step + 1]

\* one statement of a call that holds the lock
CmdStep(c) ==
  LET f == inflight[c]
      r == IF f.cmd.op = "RENAME" THEN RenameStep(data, now, f) ELSE FlushAllStep(data, f)
  IN
  /\ f # Idle
  /\ f.cmd.op \in {"RENAME", "FLUSHALL"}
  /\ f.step < Logged
  /\ ~panicked
  /\ data' = r.data
  /\ inflight' = [inflight EXCEPT ![c].step = r.step]
  /\ UNCHANGED <<now, mu, panicked, aofChan, aofFile, traceFile, last, nops, applied>>
  /\ UNCHANGED <<recoveryVars, serverVars, respVars, startVars, snapVars, exitVars>>

\* the line a call logs before it returns
CmdLine(cmd) ==
  IF cmd.op = "RENAME" THEN <<"RENAME", Itoa(cmd.db), cmd.key, cmd.key2>> ELSE <<"FLUSHALL">>

\* the send to the channel and the deferred s.mu.Unlock()
CmdUnlock(c) ==
  LET f == inflight[c]
      log == IF f.step = Logged THEN <<CmdLine(f.cmd)>> ELSE <<>>
      rv == IF f.step = Early /\ ~f.before[f.cmd.db][f.cmd.key].ok
            THEN RvErr(ErrNoSuchKey) ELSE RvOK
  IN
  /\ f # Idle
  /\ f.cmd.op \in {"RENAME", "FLUSHALL"}
  /\ f.step >= Logged
  /\ ~panicked
  /\ Len(aofChan) + Len(log) <= MaxPending
  /\ aofChan' = aofChan \o log
  /\ applied' = applied \o log
  /\ mu' = "unlocked"
  /\ inflight' = [inflight EXCEPT ![c] = Idle]
  /\ last' = [cmd |-> f.cmd, rv |-> rv, status |-> "returned"]
  /\ nops' = nops + 1
  /\ snapshot' = IF snapshot.taking
                 THEN [snapshot EXCEPT !.committed = @ \cup {data}] ELSE snapshot
  /\ UNCHANGED <<data, now, panicked, aofFile, traceFile, heap, slices>>
  /\ UNCHANGED <<recoveryVars, serverVars, respVars, startVars, exitVars>>

\* the store as the latest finished command left it
Committed == IF InFlight = {} THEN data ELSE (CHOOSE c \in InFlight : TRUE).before

\* s.mu.RLock() goes through when no writer holds the lock
RLockTakesNoLock(m) == TRUE

RLockFree(m) == m = "unlocked"

\* GetSnapshot: s.mu.RLock()
SnapRLock ==
  /\ ~snapshot.taking
  /\ ~snapshot.done
  /\ ~panicked
  /\ RLockFree(mu)
  /\ mu' = "rlocked"
  /\ snapshot' = [NoSnapshot EXCEPT !.taking = TRUE,
                                    !.committed = {inflight[c].before : c \in InFlight} \cup
                                                  (IF InFlight = {} THEN {data} ELSE {})]
  /\ UNCHANGED <<data, now, panicked, aofChan, aofFile, traceFile, last, nops>>
  /\ UNCHANGED <<recoveryVars, serverVars, respVars, startVars, orderVars, heap, slices, exitVars>>

\* GetSnapshot: one turn of `for i := range s.data`
SnapCopy ==
  /\ snapshot.taking
  /\ snapshot.next < NumDbs
  /\ ~panicked
  /\ snapshot' = [snapshot EXCEPT
                    !.next = @ + 1,
                    !.copy = [i \in 0 .. snapshot.next |->
                                IF i = snapshot.next THEN [k \in Keys |-> data[i][k]]
                                ELSE snapshot.copy[i]]]
  /\ UNCHANGED <<storeVars, recoveryVars, serverVars, respVars, startVars, orderVars, heap, slices,
                 exitVars>>

\* GetSnapshot: return dataCopy, and the deferred s.mu.RUnlock()
SnapRUnlock ==
  /\ snapshot.taking
  /\ snapshot.next = NumDbs
  /\ ~panicked
  /\ mu' = "unlocked"
  /\ snapshot' = [snapshot EXCEPT !.taking = FALSE, !.done = TRUE]
  /\ UNCHANGED <<data, now, panicked, aofChan, aofFile, traceFile, last, nops>>
  /\ UNCHANGED <<recoveryVars, serverVars, respVars, startVars, orderVars, heap, slices, exitVars>>

SnapRENAME ==
  \E c \in Conns, oldKey \in Keys, newKey \in Keys :
    CmdLock(c, [Cmd0 EXCEPT !.op = "RENAME", !.db = 0, !.key = oldKey, !.key2 = newKey])

SnapFLUSHALL == \E c \in Conns : CmdLock(c, [Cmd0 EXCEPT !.op = "FLUSHALL"])

SnapStep == \E c \in Conns : CmdStep(c)

SnapReturn == \E c \in Conns : CmdUnlock(c)

NextSnap ==
  \/ SnapRENAME
  \/ SnapFLUSHALL
  \/ SnapStep
  \/ SnapReturn
  \/ SnapRLock
  \/ SnapCopy
  \/ SnapRUnlock
  \/ Tick
  \/ AOFWriter

SpecSnap == InitSnap /\ [][NextSnap]_vars

\* ---- the earlier store: Get and Exists drop the expired key they meet ----
\* isExpired: an expiration that has passed deletes the key and its expiration
isExpired(D, t, d, k) ==
  IF D[d][k].exp # NoExp /\ t > D[d][k].exp
  THEN [expired |-> TRUE, data |-> delKey(D, d, k)]
  ELSE [expired |-> FALSE, data |-> D]

\* the connections inside Get or Exists
Readers == {c \in Conns : inflight[c] # Idle /\ inflight[c].cmd.op \in {"GET", "EXISTS"}}

\* s.mu.RLock(): goes through unless a writer holds the lock
ReadRLock(c, op, k) ==
  /\ nops + Cardinality(InFlight) < MaxCmds
  /\ inflight[c] = Idle
  /\ ~panicked
  /\ mu \in {"unlocked", "rlocked"}
  /\ mu' = "rlocked"
  /\ inflight' = [inflight EXCEPT ![c] = [cmd |-> [Cmd0 EXCEPT !.op = op, !.db = 0, !.key = k],
                                          step |-> 1, before |-> data]]
  /\ UNCHANGED <<data, now, panicked, aofChan, aofFile, traceFile, last, nops, applied>>
  /\ UNCHANGED <<recoveryVars, serverVars, respVars, startVars, snapVars, exitVars>>

\* if s.isExpired(dbIndex, key) { return }, then the lookup in s.data
ReadStep(c) ==
  LET f == inflight[c]
      e == isExpired(data, now, f.cmd.db, f.cmd.key)
      value == e.data[f.cmd.db][f.cmd.key]
  IN
  /\ c \in Readers
  /\ f.step = 1
  /\ ~panicked
  /\ data' = e.data
  /\ inflight' = [inflight EXCEPT ![c].step = 2,
                                  ![c].cmd.val = IF value.ok /\ value.kind = "string"
                                                 THEN value.str ELSE "",
                                  ![c].cmd.has = IF f.cmd.op = "GET"
                                                 THEN value.ok /\ value.kind = "string"
                                                 ELSE value.ok]
  /\ UNCHANGED <<now, mu, panicked, aofChan, aofFile, traceFile, last, nops, applied>>
  /\ UNCHANGED <<recoveryVars, serverVars, respVars, startVars, snapVars, exitVars>>

\* return, and the deferred s.mu.RUnlock()
ReadRUnlock(c) ==
  LET f == inflight[c]
      rv == IF f.cmd.op = "GET"
            THEN (IF f.cmd.has THEN RvStr(f.cmd.val) ELSE RvNil)
            ELSE RvInt(IF f.cmd.has THEN 1 ELSE 0)
  IN
  /\ c \in Readers
  /\ f.step = 2
  /\ ~panicked
  /\ mu' = IF Readers = {c} THEN "unlocked" ELSE "rlocked"
  /\ inflight' = [inflight EXCEPT ![c] = Idle]
  /\ last' = [cmd |-> f.cmd, rv |-> rv, status |-> "returned"]
  /\ nops' = nops + 1
  /\ UNCHANGED <<data, now, panicked, aofChan, aofFile, traceFile, applied>>
  /\ UNCHANGED <<recoveryVars, serverVars, respVars, startVars, snapVars, exitVars>>

ReadGET == \E c \in Conns, k \in Keys : ReadRLock(c, "GET", k)

ReadEXISTS == \E c \in Conns, k \in Keys : ReadRLock(c, "EXISTS", k)

ReadLookup == \E c \in Conns : ReadStep(c)

ReadReturn == \E c \in Conns : ReadRUnlock(c)

NextRead ==
  \/ ReadGET
  \/ ReadEXISTS
  \/ ReadLookup
  \/ ReadReturn
  \/ SnapRENAME
  \/ SnapFLUSHALL
  \/ SnapStep
  \/ SnapReturn
  \/ Tick
  \/ AOFWriter

SpecRead == InitSnap /\ [][NextRead]_vars

\* ---- one connection's loop and the closing of its socket ----

\* what a client may write: commands, other values, and a byte that opens no value
ConnMsgs ==
  {ArrayMsg(<<BulkMsg(<<"a">>)>>), ArrayMsg(<<BulkMsg(<<"a">>), IntegerMsg(0)>>),
   ArrayMsg(<<ArrayMsg(<<>>)>>), ArrayMsg(<<>>),
   BulkMsg(<<CR, LF>>), NullBulkMsg, IntegerMsg(12), SimpleMsg(<<"O", "K">>),
   <<"a">>, <<"$", "a">>}

\* fmt.Fscanf(reader, "%d\r\n", &n) has read every byte that arrived and needs more
scanStarved(bytes) ==
  LET signed == bytes # <<>> /\ Head(bytes) \in {"+", "-"}
      body == IF signed THEN Tail(bytes) ELSE bytes
      d == ScanDigits(body, 0)
  IN IF body = <<>> THEN TRUE
     ELSE IsDigit(Head(body)) /\ d.rest \in {<<>>, <<CR>>}

RECURSIVE Starved(_)
RECURSIVE itemsStarved(_, _)

\* the loop of parseArray runs out of bytes within one of its count items
itemsStarved(bytes, count) ==
  IF count <= 0 THEN FALSE
  ELSE IF Starved(bytes) THEN TRUE
  ELSE IF Parse(bytes).ok THEN itemsStarved(Parse(bytes).rest, count - 1)
  ELSE FALSE

\* Parse reads past the bytes that arrived: it waits on an open socket and
\* meets the end of the stream on a closed one
Starved(bytes) ==
  IF bytes = <<>> THEN TRUE
  ELSE LET prefix == Head(bytes)
           rest == Tail(bytes)
           r == FscanfD(rest)
       IN
       IF prefix \in {"+", "-"} THEN ~ReadString(rest, <<>>).ok
       ELSE IF prefix = ":" THEN scanStarved(rest)
       ELSE IF prefix \notin {"$", "*"} THEN FALSE
       ELSE IF ~r.ok THEN scanStarved(rest)
       ELSE IF prefix = "$" THEN r.val >= 0 /\ Len(r.rest) < r.val + 2
       ELSE itemsStarved(r.rest, r.val)

\* the error Parse returns at the end of the stream: io.EOF from ReadByte and
\* ReadString, io.EOF or io.ErrUnexpectedEOF from Fscanf
EOFErrors(bytes) ==
  IF bytes = <<>> \/ Head(bytes) \in {"+", "-"} THEN {"EOF"}
  ELSE {"EOF", "unexpected EOF"}

\* a loop that takes no error for the end of the stream
IsEOFNever(err) == FALSE

\* handleConn: err.Error() == "EOF"
IsEOF(err) == err = "EOF"

\* the bytes a client writes at once: a message or the beginning of one
Chunks == UNION {{SubSeq(m, 1, n) : n \in 1..Len(m)} : m \in ConnMsgs}

\* the bytes the loop can find unread: the ends of what a client wrote
Streams ==
  LET sents == Chunks \cup {m \o c : m \in ConnMsgs, c \in Chunks} IN
  UNION {{SubSeq(b, i, Len(b)) : i \in 1..(Len(b) + 1)} : b \in sents}

\* s.Protocol.Parse(reader) on each of them
Reads ==
  [b \in Streams |-> [starved |-> Starved(b), r |-> Parse(b), errs |-> EOFErrors(b)]]

ParseErrorReply == [t |-> "error", s |-> <<"p", "a", "r", "s", "e">>]

\* executeCommand: a request that is no array is refused, an empty one answered
\* with an empty string; the reply of a command stands for all commands
CommandReply(v) ==
  IF v.t # "array" THEN [t |-> "error", s |-> <<"E", "R", "R">>]
  ELSE IF v.items = <<>> THEN [t |-> "simple", s |-> <<>>]
  ELSE [t |-> "simple", s |-> <<"O", "K">>]

\* the client writes a message, or bytes that end anywhere within one after
\* which it writes no more
ConnWrite ==
  /\ "c1" \notin closed
  /\ sent = <<>> \/ sent \in ConnMsgs
  /\ \E chunk \in Chunks :
       /\ sent' = sent \o chunk
       /\ reader' = reader \o chunk
  /\ UNCHANGED <<respValue, writer, respPc>>
  /\ OnlyProtocol

\* the client closes its socket
ConnShut == ClientClose("c1")

\* handleConn: Parse returned a value, or an error met within the bytes
ParseValue ==
  /\ respPc = "idle"
  /\ ~Reads[reader].starved
  /\ respValue' = Reads[reader].r
  /\ reader' = respValue'.rest
  /\ respPc' = IF respValue'.ok THEN "parsed" ELSE "idle"
  /\ writer' = IF respValue'.ok THEN writer ELSE Encode(ParseErrorReply)

\* handleConn: Parse met the end of the stream; the loop returns on "EOF" and
\* answers any other error and goes on
ParseEOF ==
  /\ respPc = "idle"
  /\ Reads[reader].starved
  /\ "c1" \in closed
  /\ \E err \in Reads[reader].errs :
       \/ /\ IsEOF(err)
          /\ respPc' = "exited"
          /\ UNCHANGED <<reader, respValue, writer>>
       \/ /\ ~IsEOF(err)
          /\ reader' = <<>>
          /\ respValue' = ParseError(<<>>)
          /\ respPc' = "idle"
          /\ writer' = Encode(ParseErrorReply)

\* handleConn: value, err := s.Protocol.Parse(reader), and the branch on err
ConnParse ==
  /\ ParseValue \/ ParseEOF
  /\ UNCHANGED sent
  /\ OnlyProtocol

\* handleConn: reply, err := s.executeCommand(conn, value), written and flushed
ConnExecute ==
  /\ respPc = "parsed"
  /\ writer' = Encode(CommandReply(respValue.value))
  /\ respPc' = "idle"
  /\ UNCHANGED <<sent, reader, respValue>>
  /\ OnlyProtocol

NextConn ==
  \/ ConnWrite
  \/ ConnShut
  \/ ConnParse
  \/ ConnExecute

SpecConn == Init /\ [][NextConn]_vars

\* the goroutine of handleConn keeps running
FairConn == SpecConn /\ WF_vars(ConnParse) /\ WF_vars(ConnExecute)

\* ---- SetNX called on two connections ----

\* the value each connection supplies
NXValue(c) == IF c = "c1" THEN "a" ELSE "b"

NXCallers == {c \in Conns : inflight[c] # Idle /\ inflight[c].cmd.op = "SETNX"}

OnlyNX ==
  /\ UNCHANGED <<now, mu, panicked, aofFile, traceFile, last>>
  /\ UNCHANGED <<recoveryVars, serverVars, respVars, startVars, snapVars, exitVars>>

\* a connection enters Store.SetNX(0, k1, value)
NXCall(c) ==
  /\ inflight[c] = Idle
  /\ mu = "unlocked"
  /\ inflight' = [inflight EXCEPT ![c] = [cmd |-> [Cmd0 EXCEPT !.op = "SETNX", !.db = 0,
                                                              !.key = "k1", !.val = NXValue(c)],
                                          step |-> 1, before |-> data]]
  /\ UNCHANGED <<data, aofChan, nops, applied>>
  /\ OnlyNX

\* if s.Exists(dbIndex, key) > 0 { return 0 }: Exists takes and releases the
\* shared lock
NXExists(c) ==
  LET f == inflight[c]
      found == Exists(data, now, f.cmd.db, <<f.cmd.key>>) > 0
  IN
  /\ c \in NXCallers
  /\ f.step = 1
  /\ RLockFree(mu)
  /\ inflight' = [inflight EXCEPT ![c].step = IF found THEN 3 ELSE 2,
                                  ![c].cmd.has = FALSE]
  /\ nops' = IF found THEN nops + 1 ELSE nops
  /\ UNCHANGED <<data, aofChan, applied>>
  /\ OnlyNX

\* if s.Set(dbIndex, key, value) { return 1 }: Set takes the lock, logs,
\* assigns and releases the lock
NXSet(c) ==
  LET f == inflight[c]
      r == Set(data, f.cmd.db, f.cmd.key, f.cmd.val)
  IN
  /\ c \in NXCallers
  /\ f.step = 2
  /\ mu = "unlocked"
  /\ Len(aofChan) + Len(r.log) <= MaxPending
  /\ data' = r.data
  /\ aofChan' = aofChan \o r.log
  /\ applied' = applied \o r.log
  /\ inflight' = [inflight EXCEPT ![c].step = 3, ![c].cmd.has = TRUE]
  /\ nops' = nops + 1
  /\ OnlyNX

NXSETNX == \E c \in Conns : NXCall(c)

NXCheck == \E c \in Conns : NXExists(c)

NXWrite == \E c \in Conns : NXSet(c)

NextNX ==
  \/ NXSETNX
  \/ NXCheck
  \/ NXWrite
  \/ Tick
  \/ AOFWriter

SpecNX == InitSnap /\ [][NextNX]_vars

\* ---- SET on a server that was started with or without the writer ----

\* Store.Set: s.mu.Lock()
ServeLock(c) ==
  /\ phase = "serving"
  /\ CmdLock(c, [Cmd0 EXCEPT !.op = "SET", !.db = 0, !.key = "k1", !.val = ConnValue(c)])

\* Store.Set: s.aofChan <- fmt.Sprintf("SET %d %s %v", ...), which waits while
\* the buffer of the channel is full
ServeSend(c) ==
  LET f == inflight[c]
      line == <<"SET", Itoa(f.cmd.db), f.cmd.key, f.cmd.val>>
  IN
  /\ f # Idle
  /\ f.cmd.op = "SET"
  /\ f.step = 1
  /\ Len(aofChan) < MaxPending
  /\ aofChan' = Append(aofChan, line)
  /\ applied' = Append(applied, line)
  /\ inflight' = [inflight EXCEPT ![c].step = 2]
  /\ UNCHANGED <<data, now, mu, panicked, aofFile, traceFile, last, nops>>
  /\ UNCHANGED <<recoveryVars, serverVars, respVars, startVars, snapVars, exitVars>>

\* Store.Set: s.data[dbIndex][key] = *value, return true and the deferred
\* s.mu.Unlock()
ServeUnlock(c) ==
  LET f == inflight[c]
      r == Set(data, f.cmd.db, f.cmd.key, f.cmd.val)
  IN
  /\ f # Idle
  /\ f.cmd.op = "SET"
  /\ f.step = 2
  /\ data' = r.data
  /\ mu' = "unlocked"
  /\ inflight' = [inflight EXCEPT ![c] = Idle]
  /\ last' = [cmd |-> f.cmd, rv |-> r.rv, status |-> "returned"]
  /\ nops' = nops + 1
  /\ UNCHANGED <<now, panicked, aofChan, aofFile, traceFile, applied>>
  /\ UNCHANGED <<recoveryVars, serverVars, respVars, startVars, snapVars, exitVars>>

ServeSET == \E c \in Conns : ServeLock(c)

ServeLog == \E c \in Conns : ServeSend(c)

ServeReturn == \E c \in Conns : ServeUnlock(c)

NextServe ==
  \/ NextStart
  \/ ServeSET
  \/ ServeLog
  \/ ServeReturn

SpecServe == InitStart /\ [][NextServe]_vars

\* Start and the writer run on, and so does a connection inside Set
FairServe ==
  /\ SpecServe
  /\ WF_vars(RecoverSnapshot) /\ WF_vars(RecoverOpenLog)
  /\ WF_vars(RecoverReplayLine) /\ WF_vars(RecoverReplayEnd)
  /\ WF_vars(StartServing) /\ WF_vars(ServingWriter)
  /\ WF_vars(ServeLog) /\ WF_vars(ServeReturn)

\* ---- a restart with both RDB and AOF enabled ----

\* the store a log rebuilds, line after line
RECURSIVE ReplayAll(_, _)
ReplayAll(lines, D) ==
  IF lines = <<>> THEN D
  ELSE ReplayAll(Tail(lines), ReplayLine(Head(lines), D, 0).data)

\* appendonly.aof as the writer of the earlier run left it when the process
\* stopped: every write of that run, in order
RestartLogs ==
  {<<>>,
   << <<"SET", "0", "k1", "a">> >>,
   << <<"SET", "1", "k1", "a">> >>,
   << <<"SET", "0", "k2", "b">> >>,
   << <<"DEL", "0", "k1">> >>,
   << <<"SET", "0", "k1", "a">>, <<"SET", "0", "k1", "b">> >>,
   << <<"SET", "0", "k1", "a">>, <<"DEL", "0", "k1">> >>,
   << <<"SET", "0", "k1", "a">>, <<"SET", "1", "k2", "b">> >>,
   << <<"SET", "0", "k2", "a">>, <<"SET", "0", "k1", "b">>, <<"DEL", "0", "k2">> >>,
   << <<"RPUSH", "0", "k2", "a">>, <<"RPUSH", "0", "k2", "b">> >>}

\* the earlier run wrote dump.rdb, if at all, when startRDB's minute came:
\* after some of the writes and before the others
InitRestart ==
  /\ config = NewConfig
  /\ \E lines \in RestartLogs, n \in 0..MaxLog, saved \in BOOLEAN :
       /\ n <= Len(lines)
       /\ aofFile = lines
       /\ rdbFile = IF saved THEN SaveSnapshot(ReplayAll(SubSeq(lines, 1, n), EmptyData))
                    ELSE NoFile
  /\ NoConcurrency
  /\ flagOk = FALSE
  /\ NewStore
  /\ authenticatedConnections = NoEntries
  /\ connectionDbs = NoEntries
  /\ closed = {}
  /\ reply = Reply0
  /\ nreq = 0
  /\ sent = <<>>
  /\ reader = <<>>
  /\ respValue = [ok |-> FALSE]
  /\ writer = <<>>
  /\ respPc = "idle"
  /\ now = 0
  /\ panicked = FALSE
  /\ traceFile = TRUE
  /\ last = Last0
  /\ nops = 0
  /\ phase = "boot"
  /\ newData = EmptyData
  /\ rpos = 1

SpecRestart == InitRestart /\ [][NextStart]_vars

\* ---- what the claims speak of ----
\* this step is a store command `op` that returned
Returned(op) == nops' = nops + 1 /\ last'.cmd.op = op /\ last'.status = "returned"

\* this step is a store command, of any outcome
IsCommand == nops' = nops + 1

\* the command of this step is addressed to key k of database d
Addressed(d, k) == last'.cmd.db = d /\ last'.cmd.key = k

\* GET d k answers the string v
GetIs(D, t, d, k, v) ==
  LET g == Get(D, t, d, k) IN g.ok /\ g.kind = "string" /\ g.str = v

Absent(D, t, d, k) == ~Get(D, t, d, k).ok

\* the payload GET shows: presence, tag and content, without the expiration
Shown(D, t, d, k) == [Get(D, t, d, k) EXCEPT !.exp = NoExp]

\* C1's interveners for key k of database d in this step
C1_Intervenes(d, k) ==
  \/ /\ IsCommand
     /\ \/ Addressed(d, k) /\ last'.cmd.op \in {"DEL", "SET", "INCR", "DECR", "LPUSH", "RPUSH"}
        \/ last'.cmd.op = "RENAME" /\ last'.cmd.db = d /\ k \in {last'.cmd.key, last'.cmd.key2}
        \/ last'.cmd.op = "FLUSHDB" /\ last'.cmd.db = d
        \/ last'.cmd.op = "FLUSHALL"
  \/ IsExpired(data'[d][k], now')

\* C1: after SET d k v returns, GET d k answers v, and goes on answering v
\* across every step that is not a DEL, an overwriting write, a RENAME or a
\* FLUSHDB/FLUSHALL touching k, nor the passing of k's expiration; after
\* DEL d k, GET d k reports the key absent.
C1_SetThenGet ==
  [][ /\ Returned("SET") =>
           GetIs(data', now', last'.cmd.db, last'.cmd.key, last'.cmd.val)
      /\ Returned("DEL") => Absent(data', now', last'.cmd.db, last'.cmd.key)
      /\ \A d \in DBs, k \in Keys :
           (Get(data, now, d, k).ok /\ Get(data, now, d, k).kind = "string"
              /\ ~C1_Intervenes(d, k))
           => Shown(data', now', d, k) = Shown(data, now, d, k)
    ]_vars

\* a SET returned, time went on and the log line was written, and GET still answers v
C1_Witness ==
  /\ last.cmd.op = "SET" /\ last.status = "returned"
  /\ aofChan = <<>> /\ now > 0
  /\ GetIs(data, now, last.cmd.db, last.cmd.key, last.cmd.val)

\* C2: replaying the log lines that a sequence of write commands produced
\* rebuilds a store with the same live keys, types and values in every
\* keyspace as the store the commands were applied to.
C2_ReplayEqualsDirect ==
  /\ phase \notin {"panic", "blocked"}
  /\ phase = "rebuilt" =>
       \A d \in AllDbs, k \in Keys : Shown(newData, now, d, k) = Shown(data, now, d, k)

C4_Writes(d, k) ==
  /\ IsCommand
  /\ \/ Addressed(d, k) /\ last'.cmd.op # "EXPIRE"
     \/ last'.cmd.op = "RENAME" /\ last'.cmd.db = d /\ last'.cmd.key2 = k
     \/ last'.cmd.op = "FLUSHDB" /\ last'.cmd.db = d
     \/ last'.cmd.op = "FLUSHALL"

\* C4: once the clock has passed the deadline that EXPIRE d k t set, GET d k
\* reports k absent and EXISTS d k counts 0, and this stays so across every
\* step that does not write k again.
C4_ExpiredStaysAbsent ==
  [][ \A d \in DBs, k \in Keys :
        /\ (data'[d][k].ok /\ IsExpired(data'[d][k], now') /\ data'[d][k] = data[d][k])
             => (Absent(data', now', d, k) /\ Exists(data', now', d, <<k>>) = 0)
        /\ (data[d][k].ok /\ IsExpired(data[d][k], now) /\ ~C4_Writes(d, k))
             => (Absent(data', now', d, k) /\ Exists(data', now', d, <<k>>) = 0)
    ]_vars

\* C5: TTL d k is -2 when k is absent or its expiration instant has passed,
\* -1 when k is live without expiration, and otherwise the non-negative
\* whole number of seconds that remain.
C5_TTLValues ==
  \A d \in DBs, k \in Keys :
    LET value == data[d][k]
        ttl == TTL(data, now, d, k)
    IN
    IF ~value.ok \/ IsExpired(value, now) THEN ttl = -2
    ELSE IF value.exp = NoExp THEN ttl = -1
    ELSE /\ ttl >= 0
         /\ ttl * TicksPerSec <= value.exp - now
         /\ value.exp - now < (ttl + 1) * TicksPerSec

\* C6: SETNX d k v on a present, live key returns 0 and leaves the key's
\* value, type and expiration as they were; on an absent key it returns 1
\* and GET d k then answers v.
C6_SetNX ==
  [][ (IsCommand /\ last'.cmd.op = "SETNX") =>
        LET d == last'.cmd.db
            k == last'.cmd.key
        IN
        /\ last'.status = "returned"
        /\ Get(data, now, d, k).ok =>
             /\ last'.rv = RvInt(0)
             /\ data' = data
        /\ ~data[d][k].ok =>
             /\ last'.rv = RvInt(1)
             /\ GetIs(data', now', d, k, last'.cmd.val)
    ]_vars

\* SETNX returned 0 on a key that holds another value with an expiration
C6_Witness ==
  /\ last.cmd.op = "SETNX" /\ last.status = "returned" /\ last.rv = RvInt(0)
  /\ LET value == data[last.cmd.db][last.cmd.key] IN
       /\ value.ok /\ ~IsExpired(value, now)
       /\ value.exp # NoExp
       /\ value.kind = "list" \/ value.str # last.cmd.val

\* the list a push finds under the key: empty when the key is absent
C7_Before(d, k) == IF data[d][k].ok THEN data[d][k].list ELSE <<>>

C9_RenameSelf ==
  [][ (IsCommand /\ last'.cmd.op = "RENAME" /\ last'.cmd.key = last'.cmd.key2) =>
        LET d == last'.cmd.db
            k == last'.cmd.key
        IN
        /\ data[d][k].ok => (data'[d][k].ok /\ data'[d][k] = data[d][k])
        /\ ~data[d][k].ok => last'.rv.kind = "err"
    ]_vars

\* the normalised range of LTRIM d k start stop is empty on the list of length len
C10_EmptyRange(len, start, stop) ==
  NormStart(len, start) > NormStop(len, stop) \/ NormStart(len, start) >= len

\* C10: LTRIM on a live list whose normalised range is empty returns OK,
\* leaves the key absent, and releases the store lock.
C10_LTrimEmptyRange ==
  [][ (/\ IsCommand /\ last'.cmd.op = "LTRIM"
       /\ Get(data, now, last'.cmd.db, last'.cmd.key).ok
       /\ AsListOk(data[last'.cmd.db][last'.cmd.key])
       /\ C10_EmptyRange(Len(data[last'.cmd.db][last'.cmd.key].list),
                         last'.cmd.a, last'.cmd.b)) =>
        /\ last'.status = "returned"
        /\ last'.rv = RvOK
        /\ ~data'[last'.cmd.db][last'.cmd.key].ok
        /\ mu' = "unlocked"
    ]_vars

\* key k of database d is live and holds a STRING
C11_LiveString(d, k) ==
  LET value == Get(data, now, d, k) IN
  value.ok /\ value.type = TypeString /\ value.kind = "string"

\* C11: LPUSH, RPUSH, LPOP, RPOP, LTRIM and LRANGE on a live key that holds a
\* STRING fail with WRONGTYPE and leave the key's value, type and expiration
\* and the command log as they were.
C11_WrongType ==
  [][ /\ (/\ IsCommand
          /\ last'.cmd.op \in {"LPUSH", "RPUSH", "LPOP", "RPOP", "LTRIM"}
          /\ ~(last'.cmd.has /\ last'.cmd.a < 0)    \* a well-formed count
          /\ C11_LiveString(last'.cmd.db, last'.cmd.key)) =>
            /\ last'.rv = RvErr(ErrWrongType)
            /\ data' = data
            /\ aofChan' = aofChan
      /\ \A d \in DBs, k \in Keys :
           C11_LiveString(d, k) =>
             \A i \in Indexes, j \in Indexes :
               LRange(data, now, d, k, i, j) = RvErr(ErrWrongType)
    ]_vars

\* this step is the server executing a request `op`
Served(op) == nreq' = nreq + 1 /\ reply'.op = op

\* C12: on a connection whose authenticated flag is false, a command other
\* than AUTH is not dispatched: the reply is the NOAUTH error and the store,
\* the log and the session maps are unchanged.
C12_NoAuthNoDispatch ==
  [][ (nreq' = nreq + 1 /\ reply'.op # "AUTH" /\ ~isAuthenticates(reply'.conn)) =>
        /\ reply'.val = RvErr(ErrNoAuth)
        /\ data' = data
        /\ aofChan' = aofChan
        /\ authenticatedConnections' = authenticatedConnections
        /\ connectionDbs' = connectionDbs
    ]_vars

\* C13: QUIT is answered OK, closes the connection, and removes the
\* connection's entries from both session maps; a closed connection has no
\* further command executed.
C13_Quit ==
  [][ /\ Served("QUIT") =>
           /\ reply'.val = RvOK
           /\ reply'.conn \in closed'
           /\ reply'.conn \notin DOMAIN authenticatedConnections'
           /\ reply'.conn \notin DOMAIN connectionDbs'
      /\ nreq' = nreq + 1 => reply'.conn \notin closed
    ]_vars

\* the database a connection has selected in the map dbs
C14_Selected(dbs, c) == IF c \in DOMAIN dbs THEN dbs[c] ELSE 0

\* C14: every connection's selected database is in 0..15; it is 0 until a
\* SELECT, SELECT i with 0 <= i < 16 sets it to i for that connection only,
\* any other SELECT answers an error and leaves it as it was, and the store
\* commands of a connection act on its selected database.
C14_SelectedDb ==
  [][ /\ \A c \in DOMAIN connectionDbs' : connectionDbs'[c] \in 0..15
      /\ \A c \in Conns :
           (c \notin DOMAIN connectionDbs /\ ~Served("SELECT")) =>
             C14_Selected(connectionDbs', c) = 0
      /\ Served("SELECT") =>
           LET c == reply'.conn
               valid == \E i \in 0..15 : Itoa(i) = reply'.arg
           IN
           /\ valid => /\ reply'.val = RvOK
                       /\ Itoa(C14_Selected(connectionDbs', c)) = reply'.arg
           /\ ~valid => /\ reply'.val.kind = "err"
                        /\ C14_Selected(connectionDbs', c) = C14_Selected(connectionDbs, c)
           /\ \A x \in Conns \ {c} :
                C14_Selected(connectionDbs', x) = C14_Selected(connectionDbs, x)
      /\ (Served("SET") \/ Served("DEL")) =>
           /\ last'.cmd.db = C14_Selected(connectionDbs, reply'.conn)
           /\ \A d \in AllDbs \ {last'.cmd.db} : data'[d] = data[d]
    ]_vars

\* a SELECT was refused on a connection that had selected database 15 while
\* the other connection has selected another database
C14_Witness ==
  /\ reply.op = "SELECT" /\ reply.val.kind = "err"
  /\ C14_Selected(connectionDbs, reply.conn) = 15
  /\ \E x \in Conns \ {reply.conn} : C14_Selected(connectionDbs, x) # 15

\* C15: DEL d k replies 1 when k was present and 0 when it was absent, and
\* k is absent afterwards in both cases.
C15_DelReply ==
  [][ Served("DEL") =>
        /\ reply'.val = RvInt(IF data[last'.cmd.db][reply'.arg].ok THEN 1 ELSE 0)
        /\ ~data'[last'.cmd.db][reply'.arg].ok
    ]_vars

\* C16: KEYS * on database d returns exactly the keys of d that are present
\* and not expired.
C16_KeysLive ==
  \A d \in DBs : StoreKeys(data, d, "*") = {k \in Keys : Get(data, now, d, k).ok}

\* C17: TYPE d k is "none" exactly when k is absent from d, a key whose
\* expiration has passed counting as absent, and otherwise the name of the
\* key's tag.
C17_Type ==
  \A d \in DBs, k \in Keys :
    LET value == Get(data, now, d, k) IN
    /\ Type(data, d, k) = "none" <=> ~value.ok
    /\ value.ok => Type(data, d, k) = (IF value.type = TypeString THEN "string" ELSE "list")

\* C18: for every well-formed RESP2 message, Parse succeeds and reads the
\* whole message, and Encode of the parsed value writes exactly the bytes
\* of the message.
C18_RespRoundTrip ==
  /\ respPc # "error"
  /\ respPc = "parsed" => reader = <<>>
  /\ respPc = "encoded" => writer = sent

C20_Expected(list, start, stop) ==
  LET n == Len(list)
      s1 == IF start < 0 THEN n + start ELSE start
      e1 == IF stop < 0 THEN n + stop ELSE stop
      s == IF s1 < 0 THEN 0 ELSE s1
      e == IF e1 > n - 1 THEN n - 1 ELSE e1
  IN IF s > e \/ s >= n THEN <<>> ELSE [i \in 1..(e - s + 1) |-> list[s + i]]

\* C20: for every list of length n and all start and stop, LRANGE returns
\* the elements at the positions s..e, where a negative index i is first
\* replaced by n+i, start is then raised to 0 and stop lowered to n-1; the
\* result is empty when start > stop or start >= n; LRANGE never indexes
\* outside the list and leaves the list unchanged.
C20_LRange ==
  [][ (IsCommand /\ last'.cmd.op = "LRANGE") =>
        LET d == last'.cmd.db
            k == last'.cmd.key
            value == data[d][k]
        IN
        /\ data' = data
        /\ last'.status = "returned"
        /\ (Get(data, now, d, k).ok /\ AsListOk(value)) =>
             last'.rv = RvVals(C20_Expected(value.list, last'.cmd.a, last'.cmd.b))
    ]_vars

\* LRANGE 1 -1 returned all but the head of a live list of three or more elements
C20_Witness ==
  /\ last.cmd.op = "LRANGE" /\ last.cmd.a = 1 /\ last.cmd.b = -1
  /\ Get(data, now, last.cmd.db, last.cmd.key).ok
  /\ Len(data[last.cmd.db][last.cmd.key].list) >= 3
  /\ last.rv = RvVals(Tail(data[last.cmd.db][last.cmd.key].list))

\* the integer a string of decimal digits denotes, whatever its size
C21_IsDecimal(str) == \E n \in (2 * MinInt) .. (2 * MaxInt + 1) : Itoa(n) = str

C21_Decimal(str) == CHOOSE n \in (2 * MinInt) .. (2 * MaxInt + 1) : Itoa(n) = str

\* C21: INCR d k on an absent key stores "1" and returns 1; on a key holding
\* the decimal integer n it stores n+1 and returns it (DECR: n-1, and -1 on
\* an absent key); on a key holding a non-integer string or a value that is
\* not a STRING it fails, leaves the key unchanged and appends no log line.
C21_IncrDecr ==
  [][ (IsCommand /\ last'.cmd.op \in {"INCR", "DECR"}) =>
        LET d == last'.cmd.db
            k == last'.cmd.key
            step == IF last'.cmd.op = "INCR" THEN 1 ELSE -1
            value == data[d][k]
            isString == value.ok /\ value.type = TypeString /\ value.kind = "string"
            after == data'[d][k]
        IN
        /\ ~value.ok =>
             /\ last'.rv = RvInt(step)
             /\ after.ok /\ after.type = TypeString /\ after.str = Itoa(step)
        /\ (isString /\ C21_IsDecimal(value.str)) =>
             /\ last'.rv = RvInt(C21_Decimal(value.str) + step)
             /\ after.ok /\ after.type = TypeString
             /\ after.str = Itoa(C21_Decimal(value.str) + step)
        /\ ((isString /\ ~C21_IsDecimal(value.str)) \/ (value.ok /\ value.type # TypeString)) =>
             /\ last'.rv.kind = "err"
             /\ data' = data
             /\ aofChan' = aofChan
    ]_vars

\* the pattern language of KEYS and SCAN: "*" stands for any bytes, "?" for
\* one byte, every other byte for itself
RECURSIVE C22_GlobFrom(_, _, _, _)
C22_GlobFrom(pattern, i, bytes, j) ==
  IF i > Len(pattern) THEN j > Len(bytes)
  ELSE IF pattern[i] = "*"
       THEN \/ C22_GlobFrom(pattern, i + 1, bytes, j)
            \/ j <= Len(bytes) /\ C22_GlobFrom(pattern, i, bytes, j + 1)
  ELSE IF pattern[i] = "?"
       THEN j <= Len(bytes) /\ C22_GlobFrom(pattern, i + 1, bytes, j + 1)
  ELSE j <= Len(bytes) /\ bytes[j] = pattern[i] /\ C22_GlobFrom(pattern, i + 1, bytes, j + 1)

\* C22: one SCAN call with cursor c, COUNT n (default 10) and an optional
\* MATCH pattern returns at most n keys, all of them present, not expired and
\* matching the pattern, and the next cursor is 0 exactly when c+n reaches or
\* passes the number of live keys, and c+n otherwise.
C22_Scan ==
  [][ (IsCommand /\ last'.cmd.op = "SCAN" /\ last'.rv.kind # "err") =>
        LET d == last'.cmd.db
            c == last'.cmd.a
            n == last'.cmd.b
            pattern == last'.cmd.vals
            keys == last'.rv.vals
            live == {k \in Keys : Get(data, now, d, k).ok}
        IN
        /\ Len(keys) <= n
        /\ \A i \in DOMAIN keys :
             /\ keys[i] \in live
             /\ C22_GlobFrom(pattern, 1, KeyChars(keys[i]), 1)
        /\ last'.rv.i = IF c + n >= Cardinality(live) THEN 0 ELSE c + n
    ]_vars

\* C23: keyspaces are independent: FLUSHDB on database d leaves d empty and
\* the other 15 keyspaces unchanged, FLUSHALL empties all 16, every other
\* command on database d leaves every keyspace other than d unchanged, and
\* the store has exactly 16 keyspaces before and after every step.
C23_Keyspaces ==
  [][ /\ DOMAIN data = 0 .. 15 /\ DOMAIN data' = 0 .. 15
      /\ IsCommand =>
           LET d == last'.cmd.db
               op == last'.cmd.op
           IN
           /\ op = "FLUSHALL" => \A e \in DOMAIN data' : data'[e] = EmptyDb
           /\ op = "FLUSHDB" => data'[d] = EmptyDb
           /\ op # "FLUSHALL" => \A e \in DOMAIN data' : e # d => data'[e] = data[e]
    ]_vars

\* FLUSHDB emptied database 15 while databases 0 and 1 keep their keys
C23_Witness ==
  /\ last.cmd.op = "FLUSHDB" /\ last.status = "returned"
  /\ data[last.cmd.db] = EmptyDb
  /\ last.cmd.db = NumDbs - 1
  /\ data[0]["k2"].ok /\ data[1]["k1"].ok

\* the store that replaying the lines from line i on makes of D
RECURSIVE C24_Replayed(_, _, _)
C24_Replayed(lines, i, D) ==
  IF i > Len(lines) THEN D ELSE C24_Replayed(lines, i + 1, ReplayLine(lines[i], D, now).data)

\* C24: at startup with persistence enabled, once recoverStore is over: if
\* the snapshot loaded, the store equals the snapshot's content and the log
\* was not replayed; otherwise, if the log replayed without error, the store
\* equals the replay result; otherwise the store has 16 empty keyspaces.
C24_Recovery ==
  phase = "recovered" =>
    LET loaded == config.UseRDB /\ rdbFile.exists
        replayed == ~loaded /\ flagOk
    IN
    /\ loaded => data = LoadSnapshot(rdbFile) /\ rpos = 1 /\ aofChan = <<>>
    /\ replayed => data = C24_Replayed(aofFile, 1, EmptyData)
    /\ (~loaded /\ ~replayed) => data = EmptyData /\ DOMAIN data = 0 .. 15

\* C30: commands replayed from the log during recovery are not appended again
\* to the file they were read from: from startup on, through recovery and the
\* start of the writer, with no client command issued, every step leaves the
\* content of appendonly.aof as it was before startup.
C30_NoRelog == [][aofFile' = aofFile]_vars

\* C25: in every reachable state every stored value's tag matches its
\* payload: a value tagged STRING holds a string and a value tagged LIST
\* holds a list (no command of the store makes a HASH, SET or ZSET value).
C25_TagMatchesPayload ==
  \A d \in DOMAIN data, k \in Keys :
    data[d][k].ok =>
      /\ data[d][k].type = TypeString <=> data[d][k].kind = "string"
      /\ data[d][k].type = TypeList <=> data[d][k].kind = "list"

\* C26: for any two write commands of different connections, the order of
\* their log lines in the channel (and so in the file) equals the order in
\* which their mutations were applied to the store: once no call is under
\* way, the lines logged so far are the lines of the mutations, in the order
\* of the mutations.
C26_LogOrder ==
  InFlight = {} => aofFile \o aofChan = applied

\* C27: the AOF writer writes the lines in the order it received them, each
\* once, and after the channel is closed it writes every line still queued
\* and then returns: the file followed by the queue is always the sequence of
\* lines sent, and a closed channel leads to an empty queue, the whole
\* sequence in the file and the writer returned.
C27_WriterDrains ==
  /\ [](aofFile \o aofChan = applied)
  /\ (chanClosed ~> (writerPc = "returned" /\ aofFile = applied))

\* C28: a snapshot shares nothing with live state: whatever store commands
\* run after GetSnapshot returned, the key, the list elements and the
\* expiration read through the snapshot are those GetSnapshot copied.
C28_SharesNothing ==
  snapshot.done =>
    LET v == snapshot.copy[0]["k1"] IN
    Seen(slices.snap, heap) = [ok |-> v.ok, list |-> v.list, exp |-> v.exp]

\* C29: a snapshot taken while commands run holds, for every command, all of
\* its effects or none: the copy GetSnapshot returns is the store as it was
\* between two commands, so it never holds both or neither key of a RENAME
\* under way, nor a FLUSHALL applied to a part of the keyspaces.
C29_AllOrNone == snapshot.done => snapshot.copy \in snapshot.committed

\* a snapshot returned between a RENAME that moved a key and a FLUSHALL that
\* is now half way through the keyspaces
C29_Witness ==
  /\ snapshot.done
  /\ last.cmd.op = "RENAME"
  /\ applied # <<>>
  /\ \E c \in Conns : inflight[c].cmd.op = "FLUSHALL" /\ inflight[c].step > 1
  /\ snapshot.copy # data

\* the command names RebuildStoreFromAOF replays
C31_Known ==
  {"SET", "DEL", "SETNX", "EXPIRE", "LPUSH", "RPUSH", "LPOP", "RPOP", "LTRIM", "RENAME"}

\* a line no command is replayed from: too few tokens for a database index,
\* an unknown name, or a number of tokens the command does not take
C31_Malformed(line) ==
  \/ Len(line) < 2
  \/ line[1] \notin C31_Known
  \/ CASE line[1] = "DEL" -> Len(line) # 3
       [] line[1] = "LTRIM" -> Len(line) # 5
       [] line[1] \in {"LPUSH", "RPUSH"} -> Len(line) < 4
       [] OTHER -> Len(line) # 4

\* C31: the replay skips every line whose command name is unknown or whose
\* token count is wrong (a line with a command name and no database index
\* included): the step that reads such a line leaves the store as it was,
\* does not crash the process, and the replay goes on with the next line.
C31_SkipsMalformed ==
  [][(phase = "replay" /\ rpos <= Len(aofFile) /\ ~TooLong(aofFile[rpos])
        /\ C31_Malformed(aofFile[rpos]))
       => (data' = data /\ ~panicked' /\ phase' = "replay" /\ rpos' = rpos + 1)]_vars

\* C32: no keyspace map is mutated except while the exclusive lock is held:
\* every step that changes the store is taken with the writer lock held, so a
\* GET or an EXISTS, which hold the shared lock, never insert or delete a key,
\* also when the key they look up has expired.
C32_WriterLockOnly == [][data' # data => mu = "locked"]_vars

C34_OneWins ==
  LET f1 == inflight["c1"]
      f2 == inflight["c2"]
  IN
  (/\ NXCallers = Conns
   /\ f1.step = 3 /\ f2.step = 3
   /\ ~f1.before[0]["k1"].ok /\ ~f2.before[0]["k1"].ok)
  => /\ f1.cmd.has # f2.cmd.has
     /\ data[0]["k1"].ok
     /\ data[0]["k1"].str = (IF f1.cmd.has THEN f1.cmd.val ELSE f2.cmd.val)

\* C36: the replay of the log at startup comes to an end, however many lines
\* the log holds, and the server goes on to start the writer and to serve
C36_ReplayEnds == (phase = "replay") ~> (phase \in {"recovered", "serving", "panic"})

\* C35: on a server started with UseAOF off, a SET that has entered the store
\* returns and releases the lock, however many writes came before it
C35_WriteCompletes ==
  \A c \in Conns : (~config.UseAOF /\ inflight[c] # Idle) ~> (inflight[c] = Idle /\ mu = "unlocked")

\* C37: whatever the interleaving of Shutdown with the writes of the
\* connections, no store call sends on the log channel after it was closed
C37_NoSendOnClosed == [][~(chanClosed /\ ~panicked /\ panicked')]_vars

\* C38: EXPIRE on a key whose expiration instant has passed returns 0 and
\* leaves the store as it was, so that the old value stays out of GET and EXISTS
C38_ExpireOnExpired ==
  [][ LET d == last'.cmd.db
          k == last'.cmd.key
      IN (/\ IsCommand
          /\ last'.cmd.op = "EXPIRE"
          /\ last'.status = "returned"
          /\ data[d][k].ok /\ IsExpired(data[d][k], now))
         => (last'.rv = RvInt(0) /\ data' = data /\ Absent(data', now', d, k))
    ]_vars

\* the keys a reply of SCAN holds
C39_Yielded(rv) == {rv.vals[i] : i \in DOMAIN rv.vals}

\* this step is a SCAN of database 0 with pattern * that returns keys
C39_Call == IsCommand /\ last'.cmd.op = "SCAN" /\ last'.cmd.vals = <<"*">> /\ last'.rv.kind # "err"

\* C39: an iteration of SCAN with pattern * that starts at cursor 0 and follows
\* the cursor returned until 0 is returned yields every live key, the store
\* being the same at every call: here for the iterations of one call and of
\* two calls, which are all there are over two keys
C39_FullIteration ==
  [][ /\ (C39_Call /\ last'.cmd.a = 0 /\ last'.rv.i = 0)
           => ScanLive(data, now', 0) \subseteq C39_Yielded(last'.rv)
      /\ (/\ C39_Call /\ last'.rv.i = 0
          /\ last.cmd.op = "SCAN" /\ last.cmd.vals = <<"*">> /\ last.rv.kind # "err"
          /\ last.cmd.a = 0 /\ last.rv.i # 0
          /\ last'.cmd.a = last.rv.i /\ last'.cmd.b = last.cmd.b)
           => ScanLive(data, now', 0) \subseteq (C39_Yielded(last.rv) \cup C39_Yielded(last'.rv))
    ]_vars

\* C40: with RDB and AOF both enabled, the store that recovery leaves holds
\* every write whose line is in appendonly.aof, whether or not dump.rdb holds
\* a snapshot taken before some of them
C40_LogReflected ==
  (phase = "recovered" /\ config.UseRDB /\ config.UseAOF)
    => data = ReplayAll(aofFile, EmptyData)

====
